---------------------------- MODULE Spec2Model ----------------------------
(***************************************************************************)
(* Two-way audio relay of the AVA doorbell (services/talk_relay.py):       *)
(* the G.711 A-law encoder, the audio conditioner (_pcm16_to_alaw), the    *)
(* RTSP backchannel object (DirectRtspBackchannel) and the WebSocket       *)
(* relay server with its retry/backoff controller (TalkRelayServer).       *)
(*                                                                         *)
(* Time is in whole seconds.  A float of the program that is a gain is     *)
(* kept in fixed point, as gain * GainScale, rounded down.                 *)
(***************************************************************************)
EXTENDS Integers, Sequences, FiniteSets, TLC

(***************************************************************************)
(* Program constants                                                       *)
(***************************************************************************)
ALAW_SILENCE == 213
AGC_TARGET == 12000
AGC_MIN_GAIN == 1
AGC_MAX_GAIN == 30
AGC_ATTACK_PCT == 5
AGC_RELEASE_PCT == 90
NOISE_GATE_THRESHOLD == 30
NOISE_GATE_HOLD_CHUNKS == 12
SOFT_LIMIT == 12000
SOFT_CEILING == 28000
_BC_MAX_RETRIES == 5
_BC_BACKOFF_BASE == 2
_BC_BACKOFF_MAX == 30
_BC_RESET_AT == 3
RESET_SLEEP_DELETE == 2
RESET_SLEEP_PUT == 4
MAX_SIZE == 65536
\* services/admin/auth.py
RATE_LIMIT_ATTEMPTS == 5
RATE_LIMIT_WINDOW == 900
SWEEP_ABOVE == 100

ERR_NONE == ""
ERR_DESCRIBE_404 == "describe_404"
ERR_DESCRIBE_OTHER == "describe_other"
ERR_NO_TRACK == "no_backchannel_track"
ERR_SETUP == "setup_failed"
ERR_PLAY == "play_failed"
ERR_EXCEPTION == "exception"

(***************************************************************************)
(* Bounds of the model                                                     *)
(***************************************************************************)
GainScale == 1000
MaxSends == 3
MaxLog == 6
MaxCount == 6
MaxChunks == 14
\* the audio frames of one observed session that are numbered
MaxFrames == 3
\* the longest chunk given to the smoothing alone
FirLen == 5
RelayChunks == 2
EncSpan == 40
EncStep == 8
\* the failed logins of one IP that are followed, the seconds between two
\* readings of the clock and the last reading
MaxAttempts == 5
ClockStep == 450
MaxClock == 1350

Max(a, b) == IF a >= b THEN a ELSE b
Min(a, b) == IF a <= b THEN a ELSE b
Abs(a) == IF a >= 0 THEN a ELSE -a

RECURSIVE Pow2(_)
Pow2(k) == IF k = 0 THEN 1 ELSE 2 * Pow2(k - 1)

\* a ^ b on n-bit operands
RECURSIVE BitXor(_, _, _)
BitXor(a, b, n) ==
    IF n = 0 THEN 0
    ELSE (((a % 2) + (b % 2)) % 2) + 2 * BitXor(a \div 2, b \div 2, n - 1)

(***************************************************************************)
(* G.711 A-law encoding                                                    *)
(***************************************************************************)
\* the loop "for i in range(7, 0, -1)" with its mask, from exponent i down
RECURSIVE ExponentScan(_, _, _)
ExponentScan(pcm, i, mask) ==
    IF i = 0 THEN 7
    ELSE IF (pcm \div mask) % 2 = 1 THEN i
    ELSE ExponentScan(pcm, i - 1, mask \div 2)

_linear2alaw(pcm0) ==
    LET sign == IF pcm0 >= 0 THEN 0 ELSE 128
        mag  == IF pcm0 >= 0 THEN pcm0 ELSE -pcm0
        pcm  == IF mag > 32767 THEN 32767 ELSE mag
        exponent == IF pcm >= 256 THEN ExponentScan(pcm, 7, 16384) ELSE 0
        mantissa == IF pcm >= 256 THEN (pcm \div Pow2(exponent + 3)) % 16
                    ELSE pcm \div 16
        alaw == sign + exponent * 16 + mantissa
    IN  BitXor(alaw, 85, 8)

\* a table built without reinterpreting the index as a signed value
ALAW_TABLE_Unsigned(u) == _linear2alaw(u)

\* ALAW_TABLE[u], the entry _build_alaw_table computes for index u
ALAW_TABLE(u) == _linear2alaw(IF u >= 32768 THEN u - 65536 ELSE u)

(***************************************************************************)
(* Audio conditioner: _pcm16_to_alaw                                       *)
(***************************************************************************)
\* lines 651-661: the weighted sum each smoothed sample is made of, and
\* its divisor, for a chunk of n >= 3 samples (the assignments to
\* smoothed[n-2] and smoothed[n-1] come last and win)
Weighted(raw) ==
    LET n == Len(raw)
        first == raw[1] * 4 + raw[2] * 2 + raw[Min(2, n - 1) + 1]
        second == raw[1] * 2 + raw[2] * 4 + raw[3] * 2 + raw[Min(3, n - 1) + 1]
        mid(i) == raw[i - 2] + raw[i - 1] * 2 + raw[i] * 4 + raw[i + 1] * 2 + raw[i + 2]
        before_last == raw[Max(0, n - 4) + 1] + raw[n - 2] * 2 + raw[n - 1] * 4 + raw[n] * 2
        last == raw[Max(0, n - 3) + 1] + raw[n - 1] * 2 + raw[n] * 4
    IN  [i \in 1..n |->
            IF i = n THEN [sum |-> last, weight |-> 7]
            ELSE IF i = n - 1 THEN [sum |-> before_last, weight |-> 9]
            ELSE IF i = 1 THEN [sum |-> first, weight |-> 7]
            ELSE IF i = 2 THEN [sum |-> second, weight |-> 9]
            ELSE [sum |-> mid(i), weight |-> 10]]

\* a quotient truncated toward zero
Quotient_Truncated(a, b) == IF a >= 0 THEN a \div b ELSE 0 - ((0 - a) \div b)

\* "//" of Python: like \div, it rounds toward minus infinity
Quotient(a, b) == a \div b

\* the 5-tap smoothing of a chunk of n >= 3 samples
Smooth(raw) ==
    LET w == Weighted(raw)
    IN  [i \in 1..Len(raw) |-> Quotient(w[i].sum, w[i].weight)]

RECURSIVE SeqMaxAbs(_)
SeqMaxAbs(s) == IF s = <<>> THEN 0 ELSE Max(Abs(Head(s)), SeqMaxAbs(Tail(s)))

chunk_peak(smoothed) == SeqMaxAbs(smoothed)

\* a clamp that has no ceiling
Clamp_NoCeiling(lo, hi, x) == Max(lo, x)

\* max(lo, min(hi, x)), lines 678 and 683
Clamp(lo, hi, x) == Max(lo, Min(hi, x))

\* the AGC update of the stored gain (fixed point) for a chunk of peak > 0
AgcUpdate(gain, peak) ==
    LET ideal == Clamp(AGC_MIN_GAIN * GainScale, AGC_MAX_GAIN * GainScale,
                       (AGC_TARGET * GainScale) \div peak)
    IN  IF ideal < gain
        THEN (gain * AGC_ATTACK_PCT + ideal * (100 - AGC_ATTACK_PCT)) \div 100
        ELSE (gain * AGC_RELEASE_PCT + ideal * (100 - AGC_RELEASE_PCT)) \div 100

AgcGain(gain, peak) ==
    Clamp(AGC_MIN_GAIN * GainScale, AGC_MAX_GAIN * GainScale,
          IF peak > 0 THEN AgcUpdate(gain, peak) ELSE gain)

\* a limiter that lets the excess through
Compress_None(excess, headroom) == excess

\* line 713: headroom * excess // (excess + headroom).  With d = excess +
\* headroom the product is headroom * d - headroom * headroom, so the floor
\* of the quotient is headroom + floor(-headroom * headroom / d): the same
\* integer, with no intermediate product beyond 32 bits.
Compress(excess, headroom) ==
    headroom + ((0 - headroom * headroom) \div (excess + headroom))

\* lines 706-714: the gain and the soft limiter on one smoothed sample
SoftLimit(s, int_gain) ==
    LET v == s * int_gain
        headroom == SOFT_CEILING - SOFT_LIMIT
        excess == Abs(v) - SOFT_LIMIT
        compressed == Compress(excess, headroom)
    IN  IF Abs(v) > SOFT_LIMIT
        THEN (SOFT_LIMIT + compressed) * (IF v > 0 THEN 1 ELSE -1)
        ELSE v

\* lines 715-719: the hard clip
HardClip(v) == IF v > 32767 THEN 32767 ELSE IF v < -32768 THEN -32768 ELSE v

\* gain, soft limiter, hard clip of one smoothed sample
Limit(s, int_gain) == HardClip(SoftLimit(s, int_gain))

EncodeSample(v) == ALAW_TABLE(IF v < 0 THEN v + 65536 ELSE v)

\* lines 666-672: the gate is closed for a chunk of this peak
GateClosed(peak, hold) == peak < NOISE_GATE_THRESHOLD /\ ~(hold > 0)

\* a hold counter that is not counted down by quiet chunks
GateHold_NoCountdown(peak, hold) ==
    IF peak >= NOISE_GATE_THRESHOLD THEN NOISE_GATE_HOLD_CHUNKS ELSE hold

\* lines 666-669: the hold counter after a chunk of this peak
GateHold(peak, hold) ==
    IF peak >= NOISE_GATE_THRESHOLD THEN NOISE_GATE_HOLD_CHUNKS
    ELSE IF hold > 0 THEN hold - 1
    ELSE hold

\* The conditioner on the samples raw with the state (gain, hold, diag):
\* the bytes returned and the state left, or the IndexError of a chunk of
\* one or two samples (raw[1], raw[2] do not exist).
_pcm16_to_alaw(raw, gain, hold, diag) ==
    LET n == Len(raw)
        same == [agc_gain |-> gain, gate_hold |-> hold, diag_counter |-> diag]
    IN  IF n = 0 THEN [raised |-> FALSE, out |-> <<>>, gated |-> FALSE] @@ same
        ELSE IF n < 3 THEN [raised |-> TRUE, out |-> <<>>, gated |-> FALSE] @@ same
        ELSE
          LET smoothed == Smooth(raw)
              peak == chunk_peak(smoothed)
              gain2 == AgcGain(gain, peak)
              int_gain == gain2 \div GainScale
          IN  IF GateClosed(peak, hold)
              THEN [raised |-> FALSE, gated |-> TRUE,
                    out |-> [i \in 1..n |-> ALAW_SILENCE]] @@ same
              ELSE [raised |-> FALSE, gated |-> FALSE,
                    out |-> [i \in 1..n |-> EncodeSample(Limit(smoothed[i], int_gain))],
                    agc_gain |-> gain2, gate_hold |-> GateHold(peak, hold),
                    diag_counter |-> diag + 1]

(***************************************************************************)
(* Byte strings.  A payload is a sequence of runs [n, b]: n bytes of value *)
(* b; this writes the longest frame the server accepts without spelling    *)
(* out its 65535 bytes.                                                    *)
(***************************************************************************)
RECURSIVE PayLen(_)
PayLen(p) == IF p = <<>> THEN 0 ELSE Head(p).n + PayLen(Tail(p))

\* the payload made of the bytes of a sequence
Bytes(bs) == [i \in 1..Len(bs) |-> [n |-> 1, b |-> bs[i]]]

AllSilence(p) == \A i \in 1..Len(p) : p[i].b = ALAW_SILENCE

(***************************************************************************)
(* 32-bit quantities are kept as two 16-bit halves, hi * 65536 + lo; the   *)
(* Python integer _rtp_ts is unbounded, so hi is.                          *)
(***************************************************************************)
AddTs(ts, k) ==
    [hi |-> ts.hi + ((ts.lo + k) \div 65536), lo |-> (ts.lo + k) % 65536]

\* ts & 0xFFFFFFFF
Mask32(ts) == [hi |-> ts.hi % 65536, lo |-> ts.lo]

\* seq & 0xFFFF
Mask16(x) == x % 65536

(***************************************************************************)
(* DirectRtspBackchannel                                                   *)
(***************************************************************************)
\* no object
NoObject ==
    [live |-> FALSE, sock |-> "none", session |-> FALSE, connected |-> FALSE,
     chan |-> 0, rtp_seq |-> 0, rtp_ts |-> [hi |-> 0, lo |-> 0], rtp_ssrc |-> 0,
     sends |-> 0, wire |-> <<>>]

\* __init__: rnd is what random.randint returned
NewBackchannel(rnd) ==
    [NoObject EXCEPT !.live = TRUE, !.rtp_seq = rnd.seq, !.rtp_ts = rnd.ts,
                     !.rtp_ssrc = rnd.ssrc]

\* a packet built in a buffer that still holds the payload written before
RtpPacket_Stale(o, alaw, c) ==
    [magic |-> 36, chan |-> o.chan, length |-> 12 + PayLen(alaw),
     vpxcc |-> 128, pt |-> 8, seq |-> Mask16(o.rtp_seq), ts |-> Mask32(o.rtp_ts),
     ssrc |-> o.rtp_ssrc,
     payload |-> IF o.wire = <<>> THEN alaw ELSE o.wire[Len(o.wire)].payload,
     by |-> c]

\* the RTP packet and interleaved header send_audio_sync builds
\* (by: the client whose frame it carries)
RtpPacket(o, alaw, c) ==
    [magic |-> 36, chan |-> o.chan, length |-> 12 + PayLen(alaw),
     vpxcc |-> 128, pt |-> 8, seq |-> Mask16(o.rtp_seq), ts |-> Mask32(o.rtp_ts),
     ssrc |-> o.rtp_ssrc, payload |-> alaw, by |-> c]

\* the last two packets written
Keep2(w) == IF Len(w) > 2 THEN SubSeq(w, Len(w) - 1, Len(w)) ELSE w

\* lines 363-364: the sequence number and the timestamp move on
Advance(o, alaw) ==
    [o EXCEPT !.rtp_seq = o.rtp_seq + 1,
              !.rtp_ts = AddTs(o.rtp_ts, PayLen(alaw)),
              !.sends = o.sends + 1]

\* a send_audio_sync that writes nothing for a payload of silence
send_audio_sync_SkipSilence(o, alaw, c, io_ok) ==
    [obj |-> o, raised |-> FALSE, sent |-> FALSE]

\* send_audio_sync on object o: io_ok is whether sendall succeeds.
\* Gives the object left and whether struct.error was raised (a length
\* over 65535 does not fit the 'H' of pack_into at line 370).
send_audio_sync(o, alaw, c, io_ok) ==
    IF ~o.connected \/ o.sock # "open"
    THEN [obj |-> o, raised |-> FALSE, sent |-> FALSE]
    ELSE IF 12 + PayLen(alaw) > 65535
    THEN [obj |-> Advance(o, alaw), raised |-> TRUE, sent |-> FALSE]
    ELSE IF io_ok
    THEN [obj |-> [Advance(o, alaw) EXCEPT
                      !.wire = Keep2(Append(o.wire, RtpPacket(o, alaw, c)))],
          raised |-> FALSE, sent |-> TRUE]
    ELSE [obj |-> [Advance(o, alaw) EXCEPT !.connected = FALSE],
          raised |-> FALSE, sent |-> FALSE]

\* close(): TEARDOWN when there is a socket and a session token, then the
\* socket is closed and the token dropped
close(o) ==
    [o EXCEPT !.connected = FALSE,
              !.sock = IF o.sock = "none" THEN "none" ELSE "closed",
              !.session = FALSE]

\* the object after _connect_sync returned e, or after connect() caught
\* its exception and closed the object
Connected(o, e) ==
    IF e = ERR_NONE
    THEN [o EXCEPT !.sock = "open", !.session = TRUE, !.connected = TRUE]
    ELSE IF e = ERR_EXCEPTION THEN close([o EXCEPT !.sock = "open"])
    ELSE IF e = ERR_PLAY THEN [o EXCEPT !.sock = "open", !.session = TRUE]
    ELSE [o EXCEPT !.sock = "open"]

(***************************************************************************)
(* TalkRelayServer                                                         *)
(***************************************************************************)
VARIABLES
    clients,              \* self.clients: the WebSockets being served
    backchannel,          \* self.backchannel: the client that created the
                          \* object it refers to, "None" for None
    _diag_counter, _agc_gain, _gate_hold,
    _bc_fail_count, _bc_reset_attempted, _bc_gave_up,
    _bc_backoff_until,    \* as an instant of the time axis below
    objs,                 \* the DirectRtspBackchannel object of each creator
    pc,                   \* where each client's handler is suspended
    alaw_data,            \* handler local: the payload being relayed
    backoff,              \* _open_backchannel local (retry_in of the status)
    wake,                 \* when the sleep a handler is in ends
    err,                  \* _open_backchannel local, from line 499 to the
                          \* call of the helper at line 520
    stream,               \* go2rtc: the rtsp producer "attached" or "detached"
    alone,                \* no other client was served during the observed
                          \* session; the next five are kept while it is so
    attempts,             \* observed session: connect() calls so far
    okSeen,               \* observed session: some connect() succeeded
    lead404,              \* observed session: see Lead
    resets,               \* observed session: runs of _reset_doorbell_rtsp
    statusLog,            \* observed session: the status messages sent to it
    toldUnavailable,      \* observed session: backchannel_unavailable was sent
    cond,                 \* the last call of _pcm16_to_alaw
    quietRun,             \* consecutive chunks of smoothed peak below the gate
    nchunks,              \* calls of _pcm16_to_alaw so far
    rec,                  \* the record of the frames handled, see Watching
    sample,               \* the encoder alone: the PCM sample given to it
    enc,                  \* the encoder alone: what it returned
    rtsp,                 \* one DirectRtspBackchannel alone: its fields
    rpos,                 \* the request connect() or close() is at
    result,               \* what connect() returned
    reqs,                 \* the requests written to the doorbell, in order
    chunk,                \* the smoothing alone: the samples given to it
    fir,                  \* the smoothing alone: what it computed
    pair,                 \* the limiter alone: a smoothed sample and a gain
    lim,                  \* the limiter alone: what it computed
    _login_attempts,      \* auth.py: IP -> times of its failed logins
    clock,                \* auth.py: time.time(), in seconds
    ret                   \* auth.py: what the last check_rate_limit did

dsp == <<_diag_counter, _agc_gain, _gate_hold, cond, quietRun>>
retry == <<_bc_fail_count, _bc_backoff_until, _bc_reset_attempted, _bc_gave_up>>
heap == <<backchannel, objs>>
sess == <<clients, pc>>
locals == <<alaw_data, backoff, wake, err>>
hist == <<alone, attempts, okSeen, lead404, resets, statusLog, toldUnavailable>>
server == <<dsp, retry, heap, sess, locals, hist, stream, nchunks, rec>>
\* the variables of the specifications of single functions of the module
pure == <<chunk, fir, pair, lim>>
auth == <<_login_attempts, clock, ret>>
apart == <<sample, enc, rtsp, rpos, result, reqs, pure, auth>>
vars == <<server, apart>>

\* time.time(): instants are measured from the present, so the present is
\* always 0 and an instant that has passed is 0 too
now == 0

Clients == {"a", "b"}

\* The session whose history is recorded.  The handler is the same code
\* for every client, so what holds of this one holds of each.
Obs == "a"

\* what random.randint gives a new object: one draw at the top of the
\* 16-bit and 32-bit ranges, one at the bottom
RtpTop == [seq |-> 65535, ts |-> [hi |-> 65535, lo |-> 65535], ssrc |-> 7]
RtpBottom == [seq |-> 0, ts |-> [hi |-> 0, lo |-> 0], ssrc |-> 9]

\* binary frames: the format tag and what follows it
PcmFrame(x) == [tag |-> 1, pcm |-> x, alaw |-> <<>>]
AlawFrame(y) == [tag |-> 3, pcm |-> <<>>, alaw |-> y]
UnknownFrame == [tag |-> 2, pcm |-> <<>>, alaw |-> <<[n |-> 1, b |-> 0]>>]

\* two A-law bytes, and the longest payload of an accepted frame
Short == <<[n |-> 2, b |-> 1]>>
Longest == <<[n |-> MAX_SIZE - 1, b |-> 1]>>

\* inputs of the retry controller's specification
Frames == { AlawFrame(Short), UnknownFrame }
RtpRandoms == { RtpBottom }
ConnectResults == { ERR_NONE, ERR_DESCRIBE_404, ERR_DESCRIBE_OTHER, ERR_EXCEPTION }

NoCall == [n |-> 0, raised |-> FALSE, gated |-> FALSE, quiet |-> FALSE, out |-> <<>>]

\* no call of the encoder yet
NotEncoded == [called |-> FALSE, code |-> 0, entry |-> 0]
EncIdle == sample = 0 /\ enc = NotEncoded

\* no call of the smoothing or of the limiter yet
NotSmoothed == [called |-> FALSE, n |-> 0, sums |-> <<>>, smoothed |-> <<>>,
                mirrored |-> <<>>]
NotLimited == [called |-> FALSE, soft |-> 0, out |-> 0, further |-> 0]
FirIdle == chunk = <<>> /\ fir = NotSmoothed
LimIdle == pair = [s |-> 0, g |-> 1] /\ lim = NotLimited

\* auth.py as imported: no login has failed
NotChecked == [ip |-> 0, out |-> "none"]
AuthIdle == _login_attempts = <<>> /\ clock = 0 /\ ret = NotChecked

\* nothing but the relay server under observation
OthersIdle == FirIdle /\ LimIdle /\ AuthIdle

\* the server as TalkRelayServer.__init__ leaves it, nobody connected
ServerIdle ==
    /\ clients = {}
    /\ backchannel = "None"
    /\ _diag_counter = 0
    /\ _agc_gain = AGC_MAX_GAIN * GainScale
    /\ _gate_hold = 0
    /\ _bc_fail_count = 0
    /\ _bc_backoff_until = 0
    /\ _bc_reset_attempted = FALSE
    /\ _bc_gave_up = FALSE
    /\ objs = [c \in Clients |-> NoObject]
    /\ pc = [c \in Clients |-> "closed"]
    /\ alaw_data = [c \in Clients |-> <<>>]
    /\ backoff = [c \in Clients |-> 0]
    /\ wake = [c \in Clients |-> 0]
    /\ err = [c \in Clients |-> ""]
    /\ stream = "attached"
    /\ alone = FALSE
    /\ toldUnavailable = FALSE
    /\ attempts = 0
    /\ okSeen = FALSE
    /\ lead404 = 0
    /\ resets = 0
    /\ statusLog = <<>>
    /\ cond = NoCall
    /\ quietRun = 0
    /\ nchunks = 0

\* no DirectRtspBackchannel under observation
RtspIdle == rtsp = NoObject /\ rpos = "none" /\ result = "none" /\ reqs = <<>>

\* The record of the frames handled.  When it is kept (on), input is the
\* binary frame the last step took from a WebSocket and the client it came
\* from, and fresh tells that the observed session has been accepted and
\* none of its audio frames has been handled yet.  When the frames of the
\* observed session are numbered (ids: the first byte of the k-th payload is
\* k), count is the number of the last frame received in the session and
\* sent the number of the last one written to a doorbell socket.  http is
\* the call of the go2rtc API the last step made, and how it went; run is
\* the last such call of the run of the reset helper that the observed
\* session is in, and the seconds its handler has slept since that call.
NoInput == [by |-> "None", frame |-> UnknownFrame]
NoHttp == [by |-> "None", method |-> "None", reply |-> "None"]
NoRun == [method |-> "None", reply |-> "None", slept |-> 0]
Unwatched ==
    [on |-> FALSE, ids |-> FALSE, fresh |-> FALSE, input |-> NoInput,
     http |-> NoHttp, count |-> 0, sent |-> 0, run |-> NoRun]
Watching == [Unwatched EXCEPT !.on = TRUE]
Numbering == [Watching EXCEPT !.ids = TRUE]

\* the object whose socket the step wrote a packet of c to, if any
WrittenFor(c) ==
    { k \in Clients : /\ objs'[k].wire # objs[k].wire
                      /\ objs'[k].wire # <<>>
                      /\ objs'[k].wire[Len(objs'[k].wire)].by = c }

\* the number of the frame the step wrote for the observed session
Numbers(r) ==
    IF r.ids /\ WrittenFor(Obs) # {}
    THEN LET k == CHOOSE k \in WrittenFor(Obs) : TRUE
         IN  [r EXCEPT !.sent = objs'[k].wire[Len(objs'[k].wire)].payload[1].b]
    ELSE r

\* the handler is in _go2rtc_reset_sync or in the sleep of line 562
InHelper(p) == p \in {"rst_get", "rst_delete", "rst_put", "rst_sleep"}

\* the handler sleeps: time.sleep(2) of line 617, asyncio.sleep(4) of 562
Sleeping(p) == p \in {"rst_put", "rst_sleep"}

\* the longest sleep of the helper
LongestSleep == Max(RESET_SLEEP_DELETE, RESET_SLEEP_PUT)

\* the record after a step: the run of the helper ends with the helper
Stamp(r) ==
    [Numbers(r) EXCEPT !.run = IF InHelper(pc'[Obs]) THEN @ ELSE NoRun]

\* the record after d seconds have passed
Passed(r, d) ==
    IF r.on /\ Sleeping(pc[Obs])
    THEN [r EXCEPT !.run.slept = Min(@ + d, LongestSleep)]
    ELSE r

\* a step that takes no frame from a WebSocket
Unseen == rec' = Stamp([rec EXCEPT !.input = NoInput, !.http = NoHttp])

\* the step is a call of the go2rtc API made for the handler of c
Called(c, method, reply) ==
    rec' = IF rec.on
           THEN [rec EXCEPT !.input = NoInput,
                            !.http = [by |-> c, method |-> method, reply |-> reply],
                            !.run = IF c # Obs THEN @
                                    ELSE IF InHelper(pc'[Obs])
                                    THEN [method |-> method, reply |-> reply,
                                          slept |-> 0]
                                    ELSE NoRun]
           ELSE rec

\* the step takes frame f from the WebSocket of c
Seen(c, f) ==
    rec' = IF rec.on
           THEN Stamp([rec EXCEPT
                         !.input = [by |-> c, frame |-> f],
                         !.http = NoHttp,
                         !.fresh = rec.fresh /\ ~(c = Obs /\ f.tag \in {1, 3}),
                         !.count = IF rec.ids /\ c = Obs /\ f.tag = 3
                                   THEN f.alaw[1].b ELSE @])
           ELSE rec

Init == EncIdle /\ RtspIdle /\ OthersIdle /\ ServerIdle /\ rec = Unwatched

\* a handler awaiting connect() holds a reference to the object it made
InFlight(p, c) == p[c] \in {"connect", "rst_connect"}

\* Reference counting: an object no longer referenced by self.backchannel
\* or by a connect() in flight is deallocated, which closes its socket.
\* A creator has at most one object alive: making a new one rebinds
\* self.backchannel, the only other reference to its last one.
Collect(os, bc, p) ==
    [c \in Clients |-> IF bc = c \/ InFlight(p, c) THEN os[c] ELSE NoObject]

Connected_bc == backchannel # "None" /\ objs[backchannel].connected

\* the history of c's session is being kept
Watched(c) == c = Obs /\ alone

\* _send_status
SendStatus(c, msg) ==
    statusLog' = IF Watched(c) /\ Len(statusLog) < MaxLog
                 THEN Append(statusLog, msg) ELSE statusLog

\* a handler back at the message loop, or gone: its locals are dead
NoLocals(c) ==
    /\ alaw_data' = [alaw_data EXCEPT ![c] = <<>>]
    /\ backoff' = [backoff EXCEPT ![c] = 0]
    /\ wake' = [wake EXCEPT ![c] = 0]
    /\ err' = [err EXCEPT ![c] = ""]

\* the "finally" of handler, reached by the end of the message loop or by an
\* exception: the client leaves the set and the last one out closes the
\* backchannel (close() has no suspension point) and drops it
Finally(c, os) ==
    /\ clients' = clients \ {c}
    /\ pc' = [pc EXCEPT ![c] = "closed"]
    /\ IF clients \ {c} = {} /\ backchannel # "None"
       THEN /\ backchannel' = "None"
            /\ objs' = Collect([os EXCEPT ![backchannel] = close(@)], "None", pc')
       ELSE /\ backchannel' = backchannel
            /\ objs' = os

\* line 467 (also reached when _open_backchannel returned True):
\* self.backchannel.send_audio_sync(alaw_data), then back to the loop, or
\* out of the handler with struct.error
SendAudio(c, os, alaw, io_ok) ==
    LET r == send_audio_sync(os[backchannel], alaw, c, io_ok)
        os2 == [os EXCEPT ![backchannel] = r.obj]
    IN  /\ os[backchannel].sends < MaxSends
        /\ IF r.raised
           THEN Finally(c, os2)
           ELSE /\ objs' = os2
                /\ pc' = [pc EXCEPT ![c] = "recv"]
                /\ UNCHANGED <<clients, backchannel>>

\* lines 498-499 and 565-566: a new object replaces self.backchannel and
\* connect() is awaited on it
StartConnect(c, rnd, at) ==
    /\ backchannel' = c
    /\ pc' = [pc EXCEPT ![c] = at]
    /\ objs' = Collect([objs EXCEPT ![c] = NewBackchannel(rnd)], c, pc')
    /\ attempts' = IF Watched(c) /\ attempts < MaxCount THEN attempts + 1 ELSE attempts
    /\ UNCHANGED clients

\* _reset_bc_state
_reset_bc_state ==
    /\ _bc_fail_count' = 0
    /\ _bc_backoff_until' = 0
    /\ _bc_reset_attempted' = FALSE
    /\ _bc_gave_up' = FALSE

\* handler, lines 436-439: a WebSocket is accepted
Accept(c) ==
    /\ UNCHANGED apart
    /\ rec' = [rec EXCEPT !.input = NoInput, !.http = NoHttp,
                          !.fresh = IF c = Obs THEN rec.on ELSE @,
                          !.count = IF c = Obs THEN 0 ELSE @,
                          !.sent = IF c = Obs THEN 0 ELSE @]
    /\ pc[c] = "closed"
    /\ clients' = clients \cup {c}
    /\ _reset_bc_state
    /\ pc' = [pc EXCEPT ![c] = "recv"]
    /\ alone' = (c = Obs /\ clients = {})
    /\ toldUnavailable' = (c # Obs /\ toldUnavailable)
    /\ attempts' = 0
    /\ okSeen' = FALSE
    /\ lead404' = 0
    /\ resets' = 0
    /\ statusLog' = <<>>
    /\ UNCHANGED <<dsp, heap, locals, stream, nchunks>>

\* handler, lines 469-477: the client closed the connection and the
\* message loop ends
HandlerEnd(c) ==
    /\ UNCHANGED apart
    /\ rec' = [rec EXCEPT !.input = NoInput, !.http = NoHttp, !.fresh = c # Obs /\ @]
    /\ pc[c] = "recv"
    /\ Finally(c, objs)
    /\ UNCHANGED <<dsp, retry, locals, hist, stream, nchunks>>

\* the smoothed peak of a chunk the conditioner gets as far as gating
Quiet(raw) == Len(raw) >= 3 /\ chunk_peak(Smooth(raw)) < NOISE_GATE_THRESHOLD

\* one call of _pcm16_to_alaw on the server's conditioner state
Condition(raw) ==
    \E r \in {_pcm16_to_alaw(raw, _agc_gain, _gate_hold, _diag_counter)} :
        /\ _agc_gain' = r.agc_gain
        /\ _gate_hold' = r.gate_hold
        /\ _diag_counter' = r.diag_counter
        /\ cond' = [n |-> Len(raw), raised |-> r.raised, gated |-> r.gated,
                    quiet |-> Quiet(raw), out |-> Bytes(r.out)]
        /\ quietRun' = IF Len(raw) < 3 THEN quietRun
                       ELSE IF Quiet(raw) THEN quietRun + 1
                       ELSE 0

\* a gate that looks at gave_up only
BackingOff_GaveUpOnly == _bc_gave_up

\* _open_backchannel, lines 487-492: the frame is not to start a connect
BackingOff == _bc_gave_up \/ now < _bc_backoff_until

\* _open_backchannel, lines 484-499, for a frame that found no connected
\* backchannel
_open_backchannel(c, alaw, rnd) ==
    IF BackingOff
    THEN UNCHANGED <<heap, sess, locals, attempts>>
    ELSE /\ alaw_data' = [alaw_data EXCEPT ![c] = alaw]
         /\ UNCHANGED <<backoff, wake, err>>
         /\ IF _bc_fail_count = 0
            THEN /\ pc' = [pc EXCEPT ![c] = "st_connecting"]
                 /\ UNCHANGED <<heap, clients, attempts>>
            ELSE StartConnect(c, rnd, "connect")

\* the format byte is 0x01 or 0x03, whatever follows it
UnknownFormat_Never(f) == FALSE

\* handler, lines 455-461: the format byte is neither 0x01 nor 0x03
UnknownFormat(f) == f.tag # 1 /\ f.tag # 3

\* handler, lines 443-467: one binary frame of more than one byte
Frame(c, f, rnd, io_ok) ==
    /\ UNCHANGED apart
    /\ pc[c] = "recv"
    /\ IF f.tag = 1 THEN Condition(f.pcm) ELSE UNCHANGED dsp
    /\ nchunks' = IF f.tag = 1 THEN nchunks + 1 ELSE nchunks
    /\ UNCHANGED <<retry, alone, okSeen, lead404, resets, statusLog,
                   toldUnavailable, stream>>
    /\ IF UnknownFormat(f)
       THEN UNCHANGED <<heap, sess, locals, attempts>>
       ELSE IF f.tag = 1 /\ cond'.raised
       THEN /\ Finally(c, objs)
            /\ UNCHANGED <<locals, attempts>>
       ELSE LET alaw == IF f.tag = 1 THEN cond'.out ELSE f.alaw
            IN  IF Connected_bc
                THEN /\ SendAudio(c, objs, alaw, io_ok)
                     /\ UNCHANGED <<locals, attempts>>
                ELSE _open_backchannel(c, alaw, rnd)
    /\ Seen(c, f)

\* line 496: backchannel_connecting is sent, then lines 498-499
StatusConnecting(c, rnd) ==
    /\ UNCHANGED apart
    /\ pc[c] = "st_connecting"
    /\ SendStatus(c, <<"backchannel_connecting">>)
    /\ StartConnect(c, rnd, "connect")
    /\ UNCHANGED <<dsp, retry, locals, alone, okSeen, lead404, resets,
                   toldUnavailable, stream, nchunks>>
    /\ Unseen

\* lines 524-532, entered with the fail count fc: give up or report
GiveUpOrReport(c, fc) ==
    IF fc >= _BC_MAX_RETRIES
    THEN /\ _bc_gave_up' = TRUE
         /\ pc' = [pc EXCEPT ![c] = "st_unavailable"]
    ELSE /\ _bc_gave_up' = _bc_gave_up
         /\ pc' = [pc EXCEPT ![c] = "st_failed"]

\* min(_BC_BACKOFF_BASE * 2 ** (fail_count - 1), _BC_BACKOFF_MAX)
Backoff(fc) == Min(_BC_BACKOFF_BASE * Pow2(fc - 1), _BC_BACKOFF_MAX)

\* the reset condition of lines 516-518
\* a helper that is run whatever the kind of the third failure
ResetDue_AnyKind(e, fc, attempted) ==
    fc = _BC_RESET_AT /\ ~attempted

\* lines 516-518
ResetDue(e, fc, attempted) ==
    e = ERR_DESCRIBE_404 /\ fc = _BC_RESET_AT /\ ~attempted

\* Lead: how far the observed session is along "the first three connect
\* attempts fail with DESCRIBE_404, then the helper completes and the
\* connect after it succeeds": 0..3 failures so far, 4 at the end, -1 off it
Lead(c, e, after_reset) ==
    lead404' = IF ~Watched(c) THEN lead404
               ELSE IF ~after_reset /\ lead404 \in 0..2 /\ lead404 + 1 = attempts
                       /\ e = ERR_DESCRIBE_404
               THEN lead404 + 1
               ELSE IF after_reset /\ lead404 = 3 /\ attempts = 4 /\ e = ERR_NONE
               THEN 4
               ELSE -1

SawResult(c, e) ==
    okSeen' = IF Watched(c) /\ e = ERR_NONE THEN TRUE ELSE okSeen

\* lines 499-522: connect() returns e
ConnectReturn(c, e) ==
    /\ UNCHANGED apart
    /\ pc[c] = "connect"
    /\ objs' = Collect([objs EXCEPT ![c] = Connected(@, e)], backchannel,
                       [pc EXCEPT ![c] = "recv"])
    /\ Lead(c, e, FALSE)
    /\ SawResult(c, e)
    /\ IF e = ERR_NONE
       THEN /\ _bc_fail_count' = 0
            /\ _bc_backoff_until' = 0
            /\ _bc_reset_attempted' = FALSE
            /\ pc' = [pc EXCEPT ![c] = "st_ready"]
            /\ UNCHANGED <<_bc_gave_up, backoff, resets, err>>
       ELSE /\ _bc_fail_count' = _bc_fail_count + 1
            /\ backoff' = [backoff EXCEPT ![c] = Backoff(_bc_fail_count')]
            /\ _bc_backoff_until' = now + backoff'[c]
            /\ IF ResetDue(e, _bc_fail_count', _bc_reset_attempted)
               THEN /\ _bc_reset_attempted' = TRUE
                    /\ resets' = IF Watched(c) /\ resets < MaxCount
                                 THEN resets + 1 ELSE resets
                    /\ pc' = [pc EXCEPT ![c] = "rst_get"]
                    /\ err' = [err EXCEPT ![c] = e]
                    /\ UNCHANGED _bc_gave_up
               ELSE /\ GiveUpOrReport(c, _bc_fail_count')
                    /\ UNCHANGED <<_bc_reset_attempted, resets, err>>
    /\ UNCHANGED <<dsp, backchannel, clients, alaw_data, wake, alone, attempts,
                   statusLog, toldUnavailable, stream, nchunks>>
    /\ Unseen

\* line 506, then True is returned and line 467 sends the frame
StatusReady(c, io_ok) ==
    /\ UNCHANGED apart
    /\ pc[c] = "st_ready"
    /\ SendStatus(c, <<"backchannel_ready">>)
    /\ SendAudio(c, objs, alaw_data[c], io_ok)
    /\ NoLocals(c)
    /\ UNCHANGED <<dsp, retry, alone, attempts, okSeen, lead404, resets,
                   toldUnavailable, stream, nchunks>>
    /\ Unseen

\* line 531
StatusFailed(c) ==
    /\ UNCHANGED apart
    /\ pc[c] = "st_failed"
    /\ SendStatus(c, <<"backchannel_failed", backoff[c]>>)
    /\ pc' = [pc EXCEPT ![c] = "recv"]
    /\ NoLocals(c)
    /\ UNCHANGED <<dsp, retry, heap, clients, attempts, alone, okSeen, lead404, resets,
                   toldUnavailable, stream, nchunks>>
    /\ Unseen

\* line 528
StatusUnavailable(c) ==
    /\ UNCHANGED apart
    /\ pc[c] = "st_unavailable"
    /\ SendStatus(c, <<"backchannel_unavailable">>)
    /\ toldUnavailable' = (c = Obs \/ toldUnavailable)
    /\ pc' = [pc EXCEPT ![c] = "recv"]
    /\ NoLocals(c)
    /\ UNCHANGED <<dsp, retry, heap, clients, alone, attempts, okSeen, lead404,
                   resets, stream, nchunks>>
    /\ Unseen

\* _reset_doorbell_rtsp returned False: lines 524-532 with the fail count
\* as it is now
ResetFailed(c) ==
    /\ GiveUpOrReport(c, _bc_fail_count)
    /\ UNCHANGED <<_bc_fail_count, _bc_backoff_until, _bc_reset_attempted>>

\* what GET /api/streams can come to: the call fails (or its body is not
\* the JSON expected), the configured stream is not in the answer, the
\* stream has no producer whose url starts with rtsp://, or it has one
GET_FAILED == "get_failed"
STREAM_ABSENT == "stream_absent"
NO_RTSP_PRODUCER == "no_rtsp_producer"
RTSP_PRODUCER == "rtsp_producer"
StreamReplies == { GET_FAILED, STREAM_ABSENT, NO_RTSP_PRODUCER, RTSP_PRODUCER }

\* how a DELETE or a PUT went
HttpReply(ok) == IF ok THEN "ok" ELSE "failed"

\* the first producer is taken, whatever its url
SourceFound_AnyProducer(reply) == reply \in { NO_RTSP_PRODUCER, RTSP_PRODUCER }

\* _go2rtc_reset_sync, lines 588-607: source_url is set
SourceFound(reply) == reply = RTSP_PRODUCER

\* _go2rtc_reset_sync, lines 588-607: GET /api/streams
ResetGet(c, reply) ==
    /\ UNCHANGED apart
    /\ pc[c] = "rst_get"
    /\ IF SourceFound(reply)
       THEN /\ pc' = [pc EXCEPT ![c] = "rst_delete"]
            /\ UNCHANGED retry
       ELSE ResetFailed(c)
    /\ err' = [err EXCEPT ![c] = ""]
    /\ UNCHANGED <<dsp, heap, clients, alaw_data, backoff, wake, hist, stream,
                   nchunks>>
    /\ Called(c, "GET", reply)

\* lines 609-617: DELETE, then time.sleep(2)
ResetDelete(c, ok) ==
    /\ UNCHANGED apart
    /\ pc[c] = "rst_delete"
    /\ IF ok
       THEN /\ stream' = "detached"
            /\ wake' = [wake EXCEPT ![c] = now + RESET_SLEEP_DELETE]
            /\ pc' = [pc EXCEPT ![c] = "rst_put"]
            /\ UNCHANGED retry
       ELSE /\ ResetFailed(c)
            /\ UNCHANGED <<stream, wake>>
    /\ UNCHANGED <<dsp, heap, clients, alaw_data, backoff, err, hist, nchunks>>
    /\ Called(c, "DELETE", HttpReply(ok))

\* no sleep lasts
Slept_Always(c) == TRUE

\* time.sleep(2) of line 617 or asyncio.sleep(4) of line 562 has returned
Slept(c) == now >= wake[c]

\* lines 619-625 and 562: PUT once the sleep is over, then asyncio.sleep(4)
ResetPut(c, ok) ==
    /\ UNCHANGED apart
    /\ pc[c] = "rst_put"
    /\ Slept(c)
    /\ IF ok
       THEN /\ stream' = "attached"
            /\ wake' = [wake EXCEPT ![c] = now + RESET_SLEEP_PUT]
            /\ pc' = [pc EXCEPT ![c] = "rst_sleep"]
            /\ UNCHANGED retry
       ELSE /\ ResetFailed(c)
            /\ UNCHANGED <<stream, wake>>
    /\ UNCHANGED <<dsp, heap, clients, alaw_data, backoff, err, hist, nchunks>>
    /\ Called(c, "PUT", HttpReply(ok))

\* lines 565-566: the connect attempt after the reset
ResetReconnect(c, rnd) ==
    /\ UNCHANGED apart
    /\ pc[c] = "rst_sleep"
    /\ Slept(c)
    /\ StartConnect(c, rnd, "rst_connect")
    /\ UNCHANGED <<dsp, retry, locals, alone, okSeen, lead404, resets,
                   statusLog, toldUnavailable, stream, nchunks>>
    /\ Unseen

\* lines 566-574 and 521-532: the connect after the reset returns e; on
\* success True is returned up to the handler, which sends the frame
ResetConnectReturn(c, e, io_ok) ==
    /\ UNCHANGED apart
    /\ pc[c] = "rst_connect"
    /\ Lead(c, e, TRUE)
    /\ SawResult(c, e)
    /\ LET p == [pc EXCEPT ![c] = "recv"]
           os == Collect([objs EXCEPT ![c] = Connected(@, e)], backchannel, p)
       IN  IF e = ERR_NONE
           THEN /\ _bc_fail_count' = 0
                /\ _bc_backoff_until' = 0
                /\ UNCHANGED <<_bc_reset_attempted, _bc_gave_up>>
                /\ SendAudio(c, os, alaw_data[c], io_ok)
                /\ NoLocals(c)
           ELSE /\ ResetFailed(c)
                /\ objs' = os
                /\ UNCHANGED <<clients, backchannel, locals>>
    /\ UNCHANGED <<dsp, alone, attempts, resets, statusLog, toldUnavailable,
                   stream, nchunks>>
    /\ Unseen

\* the instants at which a guard of some handler changes: the end of the
\* backoff and the ends of the sleeps handlers are in
Deadlines ==
    {_bc_backoff_until}
    \cup {wake[c] : c \in {d \in Clients : pc[d] \in {"rst_put", "rst_sleep"}}}

\* the instant t seen d seconds later
Later(t, d) == Max(t - d, 0)

\* time passes, up to the next such instant
Tick ==
    /\ UNCHANGED apart
    /\ \E t \in Deadlines : t > now
    /\ LET d == CHOOSE t \in Deadlines :
                    t > now /\ \A u \in Deadlines : u > now => t <= u
       IN  /\ _bc_backoff_until' = Later(_bc_backoff_until, d)
           /\ wake' = [c \in Clients |-> Later(wake[c], d)]
           /\ UNCHANGED <<dsp, _bc_fail_count, _bc_reset_attempted,
                          _bc_gave_up, heap, sess, alaw_data, backoff, err,
                          hist, stream, nchunks>>
           /\ rec' = Stamp(Passed([rec EXCEPT !.input = NoInput,
                                               !.http = NoHttp], d))

Next ==
    \/ \E c \in Clients : Accept(c)
    \/ \E c \in Clients : HandlerEnd(c)
    \/ \E c \in Clients, f \in Frames, rnd \in RtpRandoms, io_ok \in BOOLEAN :
          Frame(c, f, rnd, io_ok)
    \/ \E c \in Clients, rnd \in RtpRandoms : StatusConnecting(c, rnd)
    \/ \E c \in Clients, e \in ConnectResults : ConnectReturn(c, e)
    \/ \E c \in Clients, io_ok \in BOOLEAN : StatusReady(c, io_ok)
    \/ \E c \in Clients : StatusFailed(c)
    \/ \E c \in Clients : StatusUnavailable(c)
    \/ \E c \in Clients, reply \in StreamReplies : ResetGet(c, reply)
    \/ \E c \in Clients, ok \in BOOLEAN : ResetDelete(c, ok)
    \/ \E c \in Clients, ok \in BOOLEAN : ResetPut(c, ok)
    \/ \E c \in Clients, rnd \in RtpRandoms : ResetReconnect(c, rnd)
    \/ \E c \in Clients, e \in ConnectResults, io_ok \in BOOLEAN :
          ResetConnectReturn(c, e, io_ok)
    \/ Tick

Spec == Init /\ [][Next]_vars

\* the same server with the record of the frames kept
InitWatch == EncIdle /\ RtspIdle /\ OthersIdle /\ ServerIdle /\ rec = Watching

SpecWatch == InitWatch /\ [][Next]_vars

\* the k-th audio frame of the observed session
Numbered(k) == AlawFrame(<<[n |-> 2, b |-> k]>>)

\* the observed client sends its frames numbered from 1 on after each
\* accept; the other client's frames all look like its first
OrderFrame(c, f, rnd, io_ok) ==
    /\ f = Numbered(IF c = Obs THEN rec.count + 1 ELSE 1)
    /\ Frame(c, f, rnd, io_ok)

NextOrder ==
    \/ \E c \in Clients : Accept(c)
    \/ \E c \in Clients : HandlerEnd(c)
    \/ \E c \in Clients, k \in 1..MaxFrames, rnd \in RtpRandoms, io_ok \in BOOLEAN :
          OrderFrame(c, Numbered(k), rnd, io_ok)
    \/ \E c \in Clients, rnd \in RtpRandoms : StatusConnecting(c, rnd)
    \/ \E c \in Clients, e \in ConnectResults : ConnectReturn(c, e)
    \/ \E c \in Clients, io_ok \in BOOLEAN : StatusReady(c, io_ok)
    \/ \E c \in Clients : StatusFailed(c)
    \/ \E c \in Clients : StatusUnavailable(c)
    \/ \E c \in Clients, reply \in StreamReplies : ResetGet(c, reply)
    \/ \E c \in Clients, ok \in BOOLEAN : ResetDelete(c, ok)
    \/ \E c \in Clients, ok \in BOOLEAN : ResetPut(c, ok)
    \/ \E c \in Clients, rnd \in RtpRandoms : ResetReconnect(c, rnd)
    \/ \E c \in Clients, e \in ConnectResults, io_ok \in BOOLEAN :
          ResetConnectReturn(c, e, io_ok)
    \/ Tick

\* the server with the frames of the observed session numbered
InitOrder == EncIdle /\ RtspIdle /\ OthersIdle /\ ServerIdle /\ rec = Numbering

SpecOrder == InitOrder /\ [][NextOrder]_vars

(***************************************************************************)
(* The data path: every connect succeeds, and the frames are PCM chunks,   *)
(* short and longest A-law payloads, on objects whose RTP counters start   *)
(* at the top of their range, so that the first packet wraps them.         *)
(***************************************************************************)
Silent == <<0, 0, 0>>
Loud == <<1000, -1000, 1000>>
\* a chunk of two samples
Pair == <<7, 7>>

RelayFrames ==
    { PcmFrame(Pair), PcmFrame(Silent), PcmFrame(Loud),
      AlawFrame(Short), AlawFrame(Longest) }
RelayRandoms == { RtpTop }

\* a frame of the data path
RelayFrame(c, f, rnd, io_ok) ==
    /\ f.tag = 1 => nchunks < RelayChunks
    /\ Frame(c, f, rnd, io_ok)

NextRelay ==
    \/ \E c \in Clients : Accept(c)
    \/ \E c \in Clients : HandlerEnd(c)
    \/ \E c \in Clients, f \in RelayFrames, rnd \in RelayRandoms, io_ok \in BOOLEAN :
          RelayFrame(c, f, rnd, io_ok)
    \/ \E c \in Clients, rnd \in RelayRandoms : StatusConnecting(c, rnd)
    \/ \E c \in Clients : ConnectReturn(c, ERR_NONE)
    \/ \E c \in Clients, io_ok \in BOOLEAN : StatusReady(c, io_ok)

SpecRelay == Init /\ [][NextRelay]_vars

\* the data path with the frames on record
SpecRelayWatch == InitWatch /\ [][NextRelay]_vars

(***************************************************************************)
(* The conditioner alone, from any state it can be in.                     *)
(***************************************************************************)
\* silence, a click under the gate, the gate's threshold, full scale
Chunks ==
    { <<0, 0, 0>>, <<0, 40, 0, 0>>, <<30, 30, 30>>, <<-32768, -32768, -32768>> }
Gains == { AGC_MIN_GAIN * GainScale, AGC_MAX_GAIN * GainScale }

InitDsp ==
    /\ EncIdle
    /\ rec = Unwatched
    /\ RtspIdle
    /\ OthersIdle
    /\ clients = {}
    /\ backchannel = "None"
    /\ _diag_counter = 0
    /\ _agc_gain \in Gains
    /\ _gate_hold \in 0..NOISE_GATE_HOLD_CHUNKS
    /\ _bc_fail_count = 0
    /\ _bc_backoff_until = 0
    /\ _bc_reset_attempted = FALSE
    /\ _bc_gave_up = FALSE
    /\ objs = [c \in Clients |-> NoObject]
    /\ pc = [c \in Clients |-> "closed"]
    /\ alaw_data = [c \in Clients |-> <<>>]
    /\ backoff = [c \in Clients |-> 0]
    /\ wake = [c \in Clients |-> 0]
    /\ err = [c \in Clients |-> ""]
    /\ stream = "attached"
    /\ alone = FALSE
    /\ toldUnavailable = FALSE
    /\ attempts = 0
    /\ okSeen = FALSE
    /\ lead404 = 0
    /\ resets = 0
    /\ statusLog = <<>>
    /\ cond = NoCall
    /\ quietRun = 0
    /\ nchunks = 0

\* one chunk is given to _pcm16_to_alaw
Feed(raw) ==
    /\ UNCHANGED apart
    /\ nchunks < MaxChunks
    /\ Condition(raw)
    /\ nchunks' = nchunks + 1
    /\ UNCHANGED <<retry, heap, sess, locals, hist, stream>>
    /\ Unseen

NextDsp == \E raw \in Chunks : Feed(raw)

SpecDsp == InitDsp /\ [][NextDsp]_vars

(***************************************************************************)
(* The encoder alone: one sample is given to _linear2alaw and looked up    *)
(* in ALAW_TABLE the way _pcm16_to_alaw looks it up.                       *)
(***************************************************************************)
\* the ends of the 16-bit range, and every EncStep-th sample around zero
Samples ==
    {-32768, -32767, -256, -255, -1, 255, 256, 32767}
        \cup {k * EncStep : k \in (0 - EncSpan)..EncSpan}

InitEnc ==
    /\ ServerIdle
    /\ rec = Unwatched
    /\ RtspIdle
    /\ OthersIdle
    /\ sample \in Samples
    /\ enc = NotEncoded

Encode ==
    /\ ~enc.called
    /\ enc' = [called |-> TRUE, code |-> _linear2alaw(sample),
               entry |-> EncodeSample(sample)]
    /\ UNCHANGED <<sample, server, rtsp, rpos, result, reqs, pure, auth>>

NextEnc == Encode

SpecEnc == InitEnc /\ [][NextEnc]_vars

(***************************************************************************)
(* The smoothing of _pcm16_to_alaw alone, on every chunk of 3 to FirLen    *)
(* samples over a few values.                                              *)
(***************************************************************************)
FirValues == { -1, 0, 9 }

RECURSIVE SeqsOf(_, _)
SeqsOf(S, n) ==
    IF n = 0 THEN { <<>> }
    ELSE { Append(x, v) : x \in SeqsOf(S, n - 1), v \in S }

FirChunks == UNION { SeqsOf(FirValues, n) : n \in 3..FirLen }

Reverse(x) == [i \in 1..Len(x) |-> x[Len(x) + 1 - i]]

InitFir ==
    /\ ServerIdle
    /\ rec = Unwatched
    /\ EncIdle
    /\ RtspIdle
    /\ LimIdle
    /\ AuthIdle
    /\ chunk \in FirChunks
    /\ fir = NotSmoothed

\* lines 651-661 on the chunk, and on the chunk reversed
SmoothChunk ==
    /\ ~fir.called
    /\ fir' = [called |-> TRUE, n |-> Len(chunk), sums |-> Weighted(chunk),
               smoothed |-> Smooth(chunk), mirrored |-> Smooth(Reverse(chunk))]
    /\ UNCHANGED <<chunk, pair, lim, auth, server, sample, enc, rtsp, rpos,
                   result, reqs>>

NextFir == SmoothChunk

SpecFir == InitFir /\ [][NextFir]_vars

(***************************************************************************)
(* The limiter of _pcm16_to_alaw alone, on smoothed samples around the     *)
(* knee and at both ends of the range, with every integer gain.            *)
(***************************************************************************)
LimSamples ==
    { -32768, -32767, -12001, -12000, -934, -401, -400, -1, 0, 1, 400, 401,
      934, 12000, 12001, 32766, 32767 }

LimPairs == [s : LimSamples, g : AGC_MIN_GAIN..AGC_MAX_GAIN]

\* the sample next to s on the side away from zero, s itself at the ends
\* of the 16-bit range
Further(s) ==
    IF s >= 0 THEN Min(s + 1, 32767) ELSE Max(s - 1, -32768)

InitLim ==
    /\ ServerIdle
    /\ rec = Unwatched
    /\ EncIdle
    /\ RtspIdle
    /\ FirIdle
    /\ AuthIdle
    /\ pair \in LimPairs
    /\ lim = NotLimited

\* lines 706-719 on the sample and on the next one
LimitSample ==
    /\ ~lim.called
    /\ lim' = [called |-> TRUE, soft |-> SoftLimit(pair.s, pair.g),
               out |-> Limit(pair.s, pair.g),
               further |-> SoftLimit(Further(pair.s), pair.g)]
    /\ UNCHANGED <<pair, chunk, fir, auth, server, sample, enc, rtsp, rpos,
                   result, reqs>>

NextLim == LimitSample

SpecLim == InitLim /\ [][NextLim]_vars

(***************************************************************************)
(* One DirectRtspBackchannel alone: connect(), send_audio_sync and close() *)
(* against a doorbell that may answer anything.                            *)
(***************************************************************************)
\* the fields of __init__ that the server's specification leaves out
NewRtsp(rnd) ==
    NewBackchannel(rnd) @@
    [cseq |-> 0, auth |-> FALSE, realm |-> "", nonce |-> "", opened |-> 0,
     blocking |-> FALSE]

\* an m=audio block of an SDP
Block(sendonly, pcma, control) ==
    [sendonly |-> sendonly, pcma |-> pcma, control |-> control]

\* lines 297-312: the loop over the m=audio blocks stops at the first
\* sendonly block; "track" when bc_track is set and line 307 did not return
RECURSIVE FindTrack(_)
FindTrack(blocks) ==
    IF blocks = <<>> THEN "none"
    ELSE IF Head(blocks).sendonly
    THEN IF ~Head(blocks).pcma THEN "none"
         ELSE IF Head(blocks).control THEN "track"
         ELSE "none"
    ELSE FindTrack(Tail(blocks))

\* the SDP has a sendonly audio block with PCMA/8000 and a control token
Offers(blocks) ==
    \E i \in 1..Len(blocks) :
        blocks[i].sendonly /\ blocks[i].pcma /\ blocks[i].control

Sdps ==
    { <<>>,
      <<Block(FALSE, TRUE, TRUE)>>,
      <<Block(FALSE, TRUE, TRUE), Block(TRUE, TRUE, TRUE)>>,
      <<Block(TRUE, FALSE, TRUE)>>,
      <<Block(TRUE, TRUE, FALSE)>>,
      <<Block(TRUE, FALSE, TRUE), Block(TRUE, TRUE, TRUE)>> }

\* what the doorbell answers: a status line, the realm and nonce of a
\* WWW-Authenticate header, an SDP body, a Session header, the first
\* channel of an interleaved= parameter (0 also when there is none)
Reply(status) ==
    [lost |-> FALSE, never |-> FALSE, status |-> status, realm |-> "",
     nonce |-> "", sdp |-> <<>>, session |-> FALSE, chan |-> 0]

\* no answer: sendall or recv raised, or the socket timed out
Lost == [Reply(0) EXCEPT !.lost = TRUE]

\* the doorbell keeps the connection open and never answers: recv raises
\* socket.timeout when the socket has a timeout, and does not return when
\* it has none
Mute == [Lost EXCEPT !.never = TRUE]

Challenge(realm, nonce) == [Reply(401) EXCEPT !.realm = realm, !.nonce = nonce]

Replies ==
    { [Reply(200) EXCEPT !.sdp = d] : d \in Sdps }
    \cup { [Reply(200) EXCEPT !.session = TRUE, !.chan = 2], Reply(200) }
    \cup { Challenge("r1", "n1"), Challenge("r2", "n2"), Reply(401) }
    \cup { Reply(404), Reply(500), Lost, Mute }

InitRtsp ==
    /\ ServerIdle
    /\ rec = Unwatched
    /\ EncIdle
    /\ OthersIdle
    /\ rtsp \in { NewRtsp(rnd) : rnd \in RtpRandoms }
    /\ rpos = "new"
    /\ result = "none"
    /\ reqs = <<>>

\* the method of the request at a position
Method(p) ==
    IF p = "describe" THEN "DESCRIBE"
    ELSE IF p = "setup" THEN "SETUP"
    ELSE IF p = "play" THEN "PLAY"
    ELSE "TEARDOWN"

\* lines 221-232: the request _rtsp_request writes on object o
Request(o, method, resent) ==
    [method |-> method, cseq |-> o.cseq + 1,
     auth |-> IF o.auth THEN <<o.realm, o.nonce>> ELSE <<>>,
     session |-> o.session, resent |-> resent, sock |-> o.opened]

\* a 401 that is answered by a new request whether or not _auth is set
Retried_Always(o, reply) ==
    /\ ~reply.lost
    /\ reply.status = 401
    /\ reply.realm # "" /\ reply.nonce # ""

\* lines 238-241: the answer makes _rtsp_request authenticate and recurse
Retried(o, reply) ==
    /\ ~reply.lost
    /\ reply.status = 401 /\ ~o.auth
    /\ reply.realm # "" /\ reply.nonce # ""

\* what is kept of the answer to a request: its status (0 when there was
\* none), the realm and nonce it carried, whether its SDP offers a track
Answer(reply) ==
    [status |-> reply.status, realm |-> reply.realm, nonce |-> reply.nonce,
     offers |-> Offers(reply.sdp)]

\* lines 397-404 of close(), after its TEARDOWN if any
Closed(o) == [close(o) EXCEPT !.auth = FALSE, !.blocking = FALSE]

\* _send_rtsp, lines 198-203, on a socket left without timeout by line 344:
\* recv never returns
Hangs(o, reply) == reply.never /\ o.blocking

\* close() on object o, begun: TEARDOWN is due when lines 388 holds
TeardownDue(o) == o.sock = "open" /\ o.session

\* connect() is called: line 282 opens the socket or raises, and then
\* connect() closes the object (no socket, so nothing to do) and returns
RtspConnect(ok) ==
    /\ rpos = "new"
    /\ IF ok
       THEN /\ rtsp' = [rtsp EXCEPT !.sock = "open", !.opened = rtsp.opened + 1]
            /\ rpos' = "describe"
            /\ result' = result
       ELSE /\ rtsp' = Closed(rtsp)
            /\ rpos' = "done"
            /\ result' = ERR_EXCEPTION
    /\ UNCHANGED <<reqs, server, sample, enc, pure, auth>>

\* a status line that tells every request succeeded
Ok_Any(reply) == TRUE

\* "200" in status_line, lines 292, 322 and 340
Ok(reply) == reply.status = 200

\* every failed DESCRIBE told as describe_other
DescribeError_Other(reply) == ERR_DESCRIBE_OTHER

\* line 294
DescribeError(reply) ==
    IF reply.status = 404 THEN ERR_DESCRIBE_404 ELSE ERR_DESCRIBE_OTHER

\* what _connect_sync does with the final answer to the request at p:
\* the position it goes to, what it returns, the object it leaves
AfterReply(o, p, reply) ==
    IF p = "describe"
    THEN IF ~Ok(reply)
         THEN [rpos |-> "done", obj |-> o, result |-> DescribeError(reply)]
         ELSE IF FindTrack(reply.sdp) = "none"
         THEN [rpos |-> "done", obj |-> o, result |-> ERR_NO_TRACK]
         ELSE [rpos |-> "setup", obj |-> o, result |-> "none"]
    ELSE IF p = "setup"
    THEN IF ~Ok(reply)
         THEN [rpos |-> "done", obj |-> o, result |-> ERR_SETUP]
         ELSE [rpos |-> "play", result |-> "none",
               obj |-> [o EXCEPT !.session = reply.session, !.chan = reply.chan]]
    ELSE IF ~Ok(reply)
         THEN [rpos |-> "done", obj |-> o, result |-> ERR_PLAY]
         ELSE [rpos |-> "done", result |-> ERR_NONE,
               obj |-> [o EXCEPT !.connected = TRUE, !.blocking = TRUE]]

\* one request of _rtsp_request is written and answered (or not): the
\* request of _connect_sync or of close() that the object is at
RtspExchange(reply) ==
    /\ rpos \in {"describe", "describe_again", "setup", "setup_again", "play",
                 "play_again", "teardown", "teardown_again",
                 "except", "except_again"}
    /\ LET again == rpos \in {"describe_again", "setup_again", "play_again",
                              "teardown_again", "except_again"}
           p == IF rpos \in {"describe", "describe_again"} THEN "describe"
                ELSE IF rpos \in {"setup", "setup_again"} THEN "setup"
                ELSE IF rpos \in {"play", "play_again"} THEN "play"
                ELSE IF rpos \in {"teardown", "teardown_again"} THEN "teardown"
                ELSE "except"
           sent == [rtsp EXCEPT !.cseq = rtsp.cseq + 1]
       IN  /\ reqs' = Append(reqs, Request(rtsp, Method(p), again) @@ Answer(reply))
           /\ IF Hangs(rtsp, reply)
              THEN /\ rtsp' = sent
                   /\ rpos' = "hung"
                   /\ result' = result
              ELSE IF Retried(rtsp, reply)
              THEN /\ rtsp' = [sent EXCEPT !.auth = TRUE, !.realm = reply.realm,
                                         !.nonce = reply.nonce]
                   /\ rpos' = IF p = "describe" THEN "describe_again"
                              ELSE IF p = "setup" THEN "setup_again"
                              ELSE IF p = "play" THEN "play_again"
                              ELSE IF p = "teardown" THEN "teardown_again"
                              ELSE "except_again"
                   /\ result' = result
              ELSE IF p = "teardown"
              THEN /\ rtsp' = Closed(sent)
                   /\ rpos' = "closed"
                   /\ result' = result
              ELSE IF p = "except"
              THEN /\ rtsp' = Closed(sent)
                   /\ rpos' = "done"
                   /\ result' = ERR_EXCEPTION
              ELSE IF reply.lost
              THEN \* connect() catches the exception and closes the object
                   IF TeardownDue(sent)
                   THEN /\ rtsp' = [sent EXCEPT !.connected = FALSE]
                        /\ rpos' = "except"
                        /\ result' = result
                   ELSE /\ rtsp' = Closed(sent)
                        /\ rpos' = "done"
                        /\ result' = ERR_EXCEPTION
              ELSE LET r == AfterReply(sent, p, reply)
                   IN  /\ rtsp' = r.obj
                       /\ rpos' = r.rpos
                       /\ result' = r.result
    /\ UNCHANGED <<server, sample, enc, pure, auth>>

\* the request the object is at was written by close(), which connect()
\* (line 268) and its callers call on the event loop itself: unlike
\* _connect_sync (line 265) it is not handed to the executor, and it has
\* no suspension point
OnLoop(p) ==
    p \in {"teardown", "teardown_again", "except", "except_again", "hung"}

\* the request the object is at was written by _connect_sync, which
\* connect() runs in the executor (lines 264-265)
OnWorker(p) ==
    p \in {"describe", "describe_again", "setup", "setup_again", "play",
           "play_again"}

\* send_audio_sync is called on the object, by a handler that the event
\* loop runs
RtspSend(io_ok) ==
    /\ rpos # "none"
    /\ ~OnLoop(rpos)
    /\ rtsp.sends < MaxSends
    /\ rtsp.connected
    /\ rtsp' = send_audio_sync(rtsp, Short, Obs, io_ok).obj
    /\ UNCHANGED <<rpos, result, reqs, server, sample, enc, pure, auth>>

\* send_audio_sync is called on an object that is not connected
RtspSendIdle(io_ok) ==
    /\ rpos # "none"
    /\ ~OnLoop(rpos)
    /\ ~rtsp.connected
    /\ rtsp' = send_audio_sync(rtsp, Short, Obs, io_ok).obj
    /\ UNCHANGED <<rpos, result, reqs, server, sample, enc, pure, auth>>

\* close() is called on an object whose connect() has returned
RtspClose ==
    /\ rpos = "done"
    /\ IF TeardownDue(rtsp)
       THEN /\ rtsp' = [rtsp EXCEPT !.connected = FALSE]
            /\ rpos' = "teardown"
       ELSE /\ rtsp' = Closed(rtsp)
            /\ rpos' = "closed"
    /\ UNCHANGED <<result, reqs, server, sample, enc, pure, auth>>

NextRtsp ==
    \/ \E ok \in BOOLEAN : RtspConnect(ok)
    \/ \E reply \in Replies : RtspExchange(reply)
    \/ \E io_ok \in BOOLEAN : RtspSend(io_ok)
    \/ \E io_ok \in BOOLEAN : RtspSendIdle(io_ok)
    \/ RtspClose

SpecRtsp == InitRtsp /\ [][NextRtsp]_vars

\* the same object when every call made on it goes on as far as it can:
\* a request written is answered or fails, unless recv never returns
SpecRtspLive ==
    SpecRtsp /\ WF_vars(\E reply \in Replies : RtspExchange(reply))

(***************************************************************************)
(* The login rate limit of services/admin/auth.py alone: check_rate_limit  *)
(* and record_failed_attempt called in any order for two IPs, after other  *)
(* IPs have logged in.                                                     *)
(***************************************************************************)
\* the IPs whose logins fail, and the first of the others
Users == {1, 2}
FirstOther == 3

\* the IPs other than the users that have logged in so far, each at the
\* first attempt: none, or as many as make 100 or 101 keys with one user
Crowds == {0, SWEEP_ABOVE - 1, SWEEP_ABOVE}
Others(k) == FirstOther..(FirstOther + k - 1)

\* lines 75-76 and 96-97: an IP not seen yet gets an empty list
Tracked(d, ip) ==
    [k \in DOMAIN d \cup {ip} |-> IF k \in DOMAIN d THEN d[k] ELSE <<>>]

\* line 79: the attempts of the last RATE_LIMIT_WINDOW seconds
Recent(ts, t) == SelectSeq(ts, LAMBDA x : t - x < RATE_LIMIT_WINDOW)

\* line 83: no attempt, or the last one longer ago than the window
Stale(v, t) == v = <<>> \/ t - v[Len(v)] > RATE_LIMIT_WINDOW

\* lines 82-85: with more than 100 IPs tracked, the stale ones are deleted
Swept(d, t) ==
    IF Cardinality(DOMAIN d) > SWEEP_ABOVE
    THEN [k \in {j \in DOMAIN d : ~Stale(d[j], t)} |-> d[k]]
    ELSE d

\* check_rate_limit(ip) at time t on dictionary d: the dictionary it
\* leaves and what it returns, or the exception it raises at line 87
check_rate_limit(d, ip, t) ==
    LET fresh == [Tracked(d, ip) EXCEPT ![ip] = Recent(@, t)]
        kept == Swept(fresh, t)
    IN  [attempts |-> kept,
         out |-> IF ip \notin DOMAIN kept THEN "KeyError"
                 ELSE IF Len(kept[ip]) >= RATE_LIMIT_ATTEMPTS THEN "False"
                 ELSE "True"]

\* record_failed_attempt(ip) at time t
record_failed_attempt(d, ip, t) == [Tracked(d, ip) EXCEPT ![ip] = Append(@, t)]

\* the dictionary after k other IPs have each called check_rate_limit once
\* and logged in (at most 100 keys: line 82 has not swept yet)
InitAuth ==
    /\ ServerIdle
    /\ rec = Unwatched
    /\ EncIdle
    /\ RtspIdle
    /\ FirIdle
    /\ LimIdle
    /\ clock = 0
    /\ ret = NotChecked
    /\ \E k \in Crowds : _login_attempts = [ip \in Others(k) |-> <<>>]

\* login, line 37: check_rate_limit(ip) is called
CheckRateLimit(ip) ==
    LET r == check_rate_limit(_login_attempts, ip, clock)
    IN  /\ _login_attempts' = r.attempts
        /\ ret' = [ip |-> ip, out |-> r.out]
        /\ UNCHANGED <<clock, server, sample, enc, rtsp, rpos, result, reqs, pure>>

\* login, line 66: the password was wrong
RecordFailedAttempt(ip) ==
    /\ ip \in DOMAIN _login_attempts => Len(_login_attempts[ip]) < MaxAttempts
    /\ _login_attempts' = record_failed_attempt(_login_attempts, ip, clock)
    /\ ret' = NotChecked
    /\ UNCHANGED <<clock, server, sample, enc, rtsp, rpos, result, reqs, pure>>

\* time.time() reads ClockStep seconds later
AuthTick ==
    /\ clock < MaxClock
    /\ clock' = clock + ClockStep
    /\ ret' = NotChecked
    /\ UNCHANGED <<_login_attempts, server, sample, enc, rtsp, rpos, result,
                   reqs, pure>>

NextAuth ==
    \/ \E ip \in Users : CheckRateLimit(ip)
    \/ \E ip \in Users : RecordFailedAttempt(ip)
    \/ AuthTick

SpecAuth == InitAuth /\ [][NextAuth]_vars

(***************************************************************************)
(* Properties                                                              *)
(***************************************************************************)
\* the n silence bytes of a chunk of n samples
SilenceOf(n) == [i \in 1..n |-> [n |-> 1, b |-> ALAW_SILENCE]]

\* the observed session is open and no other client was served during it
Solo == alone /\ pc[Obs] # "closed"

\* a handler starts a connect() in this step
Connects(c) == InFlight(pc', c) /\ ~InFlight(pc, c)

\* C1: in a session in which every connect attempt has failed, connect has
\* been invoked at most 5 times (the delays of the claim are not stated
\* here: the count alone is what the code exceeds).
C1_Orig ==
    Solo /\ ~okSeen /\ ~InFlight(pc, Obs) => attempts <= _BC_MAX_RETRIES

\* C2: within one session the reset helper is run at most once.
C2_Orig == Solo => resets <= 1

\* C3: once backchannel_unavailable was sent in a session, until the session
\* ends its handler only drops frames: it starts no connect, is never on
\* its way to send a status, and writes no RTP packet.
C3_Orig ==
    [][toldUnavailable /\ pc[Obs] = "recv" /\ pc'[Obs] # "closed"
         => /\ pc'[Obs] = "recv"
            /\ \A c \in Clients :
                  objs'[c].wire # objs[c].wire /\ objs'[c].wire # <<>>
                     => objs'[c].wire[Len(objs'[c].wire)].by # Obs]_vars

\* the status messages C4 expects
RecoveryStatuses ==
    << <<"backchannel_connecting">>, <<"backchannel_failed", 2>>,
       <<"backchannel_failed", 4>>, <<"backchannel_failed", 8>>,
       <<"backchannel_ready">> >>

\* C4: when the first three connect attempts of a session failed with
\* DESCRIBE_404, the helper completed and the connect after it succeeded,
\* the client has received exactly connecting, failed(2), failed(4),
\* failed(8), ready, in this order.
C4_Orig ==
    Solo /\ lead404 = 4 /\ pc[Obs] = "recv" /\ attempts = 4
       => statusLog = RecoveryStatuses

\* C5: whenever a session makes a new backchannel object, the one before
\* it has already been closed (its socket is not open).
C5_Orig ==
    [][Solo /\ Connects(Obs) /\ backchannel # "None"
         => objs[backchannel].sock # "open"]_vars

\* the observed session has given up: _bc_gave_up was set by its handler
GaveUpHere == pc[Obs] = "st_unavailable" \/ (toldUnavailable /\ pc[Obs] # "closed")

\* C6: once gave_up became true for a session it stays true until that
\* session's WebSocket closes.
C6_Orig == GaveUpHere => _bc_gave_up

\* C7: one client's audio is never written to a backchannel object opened
\* for another client.
C7_Orig ==
    \A c \in Clients : \A i \in 1..Len(objs[c].wire) : objs[c].wire[i].by = c

\* the 32-bit number of two halves plus k, modulo 2^32, as two halves
Wrap32(ts, k) == Mask32(AddTs(ts, k))

\* C8: of two consecutive packets written on one backchannel object the
\* second has the sequence number of the first plus 1 modulo 2^16, its
\* timestamp plus its payload length modulo 2^32, and its SSRC.
C8_Orig ==
    \A c \in Clients : \A i \in 1..(Len(objs[c].wire) - 1) :
        LET p == objs[c].wire[i]
            q == objs[c].wire[i + 1]
        IN  /\ q.seq = (p.seq + 1) % 65536
            /\ q.ts = Wrap32(p.ts, PayLen(p.payload))
            /\ q.ssrc = p.ssrc

\* a PCM frame is processed in this step and finds the gate closed
GatedFrame == nchunks' = nchunks + 1 /\ cond'.gated

\* C9: a PCM frame processed while the gate is closed, with the backchannel
\* connected, writes no RTP packet and leaves the sequence number unchanged.
C9_Orig ==
    [][GatedFrame /\ Connected_bc
         => /\ objs'[backchannel].wire = objs[backchannel].wire
            /\ objs'[backchannel].rtp_seq = objs[backchannel].rtp_seq]_vars

\* C9 as amended: for a PCM frame processed while the gate is closed the
\* conditioner returns one 0xD5 byte per sample and leaves agc_gain,
\* gate_hold and the diagnostic counter unchanged; on a connected
\* backchannel the sequence number advances by one, and when the write
\* succeeds exactly one RTP packet, carrying those silence bytes under the
\* sequence number before the frame, was written.
C9_Amended ==
    [][GatedFrame
         => /\ cond'.out = SilenceOf(cond'.n)
            /\ UNCHANGED <<_agc_gain, _gate_hold, _diag_counter>>
            /\ Connected_bc
                  => LET o == objs[backchannel]
                         o2 == objs'[backchannel]
                     IN  /\ o2.rtp_seq = o.rtp_seq + 1
                         /\ o2.connected
                               => /\ o2.wire = Keep2(Append(o.wire, o2.wire[Len(o2.wire)]))
                                  /\ o2.wire[Len(o2.wire)].payload = cond'.out
                                  /\ o2.wire[Len(o2.wire)].seq = Mask16(o.rtp_seq)]_vars

\* C9: the last packet on the wire is the silence of a gated chunk
C9_Witness ==
    /\ cond.gated
    /\ backchannel # "None"
    /\ objs[backchannel].wire # <<>>
    /\ objs[backchannel].wire[Len(objs[backchannel].wire)].payload = SilenceOf(3)

\* C10: from any conditioner state, the 13th and every later chunk of a run
\* of chunks whose smoothed peak is below 30 gives only 0xD5 bytes, one per
\* sample, and a chunk of peak 30 or more ends the run, is not gated and
\* leaves gate_hold at 12.
C10_GateSilence ==
    /\ quietRun >= NOISE_GATE_HOLD_CHUNKS + 1
          => cond.gated /\ cond.out = SilenceOf(cond.n)
    /\ cond.n >= 3 /\ ~cond.quiet
          => ~cond.gated /\ _gate_hold = NOISE_GATE_HOLD_CHUNKS /\ quietRun = 0

\* C10: twelve quiet chunks passed a gate held at 12, the thirteenth and
\* the fourteenth were silenced
C10_Witness ==
    /\ quietRun = NOISE_GATE_HOLD_CHUNKS + 2
    /\ nchunks = quietRun
    /\ _diag_counter = NOISE_GATE_HOLD_CHUNKS
    /\ cond.gated

\* C11: after any sequence of chunks the stored agc_gain is between
\* AGC_MIN_GAIN and AGC_MAX_GAIN, and int(agc_gain), the gain applied to the
\* samples, is in 1..30.
C11_AgcBounds ==
    /\ AGC_MIN_GAIN * GainScale <= _agc_gain
    /\ _agc_gain <= AGC_MAX_GAIN * GainScale
    /\ _agc_gain \div GainScale \in 1..30

\* C11: the gain was moved off both of its bounds, and the last chunk was
\* all zero and passed a gate that was held open
C11_Witness ==
    /\ nchunks >= 3
    /\ cond.n = 3 /\ cond.quiet /\ ~cond.gated
    /\ quietRun >= 2
    /\ AGC_MIN_GAIN * GainScale < _agc_gain
    /\ _agc_gain < AGC_MAX_GAIN * GainScale

\* C12: the encoder and the table entry of the same sample give 0xD5 for 0,
\* 0xAA for 32767 and 0x2A for -32768, so that ALAW_SILENCE is the encoding
\* of a zero sample.
C12_Orig ==
    enc.called =>
        /\ sample = 0 => enc.code = 213 /\ enc.entry = 213
                          /\ enc.code = ALAW_SILENCE
        /\ sample = 32767 => enc.code = 170 /\ enc.entry = 170
        /\ sample = -32768 => enc.code = 42 /\ enc.entry = 42

\* C13: for a PCM16 payload of any number n >= 1 of samples the conditioner
\* returns normally with exactly n bytes, and the session that sent the
\* chunk keeps running.
C13_Orig ==
    [][nchunks' = nchunks + 1 /\ cond'.n >= 1
          => /\ ~cond'.raised
             /\ PayLen(cond'.out) = cond'.n
             /\ \A c \in Clients : pc[c] = "recv" => pc'[c] # "closed"]_vars

\* the request that came before request i and its re-sending, 0 for none
Prev(i) == IF reqs[i].resent THEN i - 2 ELSE i - 1

\* request i is a method's request and follows a 200 to the method before
Follows(i, method, before) ==
    reqs[i].method = method
        => /\ Prev(i) >= 1
           /\ reqs[Prev(i)].method = before
           /\ reqs[Prev(i)].status = 200

\* C14: the requests of a session are DESCRIBE, SETUP, PLAY in this order
\* on one socket, each later one only after a 200 to the one before;
\* connected is true only after a 200 to PLAY, and an RTP packet is written
\* only while connected is true.
C14_HandshakeOrder ==
    /\ [](\A i \in 1..Len(reqs) :
            /\ reqs[i].sock = 1
            /\ reqs[i].resent
                  => i >= 2 /\ reqs[i - 1].method = reqs[i].method
                            /\ reqs[i - 1].status = 401
            /\ reqs[i].method = "DESCRIBE" => Prev(i) = 0
            /\ Follows(i, "SETUP", "DESCRIBE")
            /\ Follows(i, "PLAY", "SETUP"))
    /\ [](rtsp.connected
            => /\ reqs # <<>>
               /\ reqs[Len(reqs)].method = "PLAY"
               /\ reqs[Len(reqs)].status = 200)
    /\ [][rtsp'.wire # rtsp.wire => rtsp.connected]_vars

\* C14: a challenged DESCRIBE, its re-sending, SETUP and PLAY each got 200,
\* and a packet was written on the connected session
C14_Witness ==
    /\ Len(reqs) = 4
    /\ reqs[1].method = "DESCRIBE" /\ reqs[1].status = 401
    /\ reqs[2].method = "DESCRIBE" /\ reqs[2].resent
    /\ reqs[3].method = "SETUP" /\ reqs[4].method = "PLAY"
    /\ rtsp.connected
    /\ rtsp.wire # <<>>

\* the answer to the last request of a method that connect() sent
LastOf(method) ==
    LET is == {i \in 1..Len(reqs) : reqs[i].method = method}
    IN  reqs[CHOOSE i \in is : \A j \in is : j <= i]

Sent(method) == \E i \in 1..Len(reqs) : reqs[i].method = method

\* a request of connect() got no answer, or the socket was not opened
SocketError ==
    \/ rtsp.opened = 0
    \/ \E i \in 1..Len(reqs) :
          reqs[i].status = 0 /\ reqs[i].method # "TEARDOWN"

\* C15: connect() returns describe_404 exactly when the final DESCRIBE
\* status is 404, describe_other for any other DESCRIBE status but 200,
\* no_backchannel_track when the SDP has no sendonly audio block with
\* PCMA/8000 and a control token, setup_failed and play_failed on a SETUP
\* and a PLAY status other than 200, exception on a socket error or
\* timeout; after every result but success connected is false.
C15_Classification ==
    result # "none" =>
        /\ result = ERR_DESCRIBE_404
              <=> Sent("DESCRIBE") /\ LastOf("DESCRIBE").status = 404
        /\ Sent("DESCRIBE") /\ LastOf("DESCRIBE").status \notin {0, 200, 404}
              => result = ERR_DESCRIBE_OTHER
        /\ Sent("DESCRIBE") /\ LastOf("DESCRIBE").status = 200
                             /\ ~LastOf("DESCRIBE").offers
              => result = ERR_NO_TRACK
        /\ Sent("SETUP") /\ LastOf("SETUP").status \notin {0, 200}
              => result = ERR_SETUP
        /\ Sent("PLAY") /\ LastOf("PLAY").status \notin {0, 200}
              => result = ERR_PLAY
        /\ SocketError => result = ERR_EXCEPTION
        /\ result # ERR_NONE => ~rtsp.connected
        /\ result \in {ERR_NONE, ERR_DESCRIBE_404, ERR_DESCRIBE_OTHER,
                        ERR_NO_TRACK, ERR_SETUP, ERR_PLAY, ERR_EXCEPTION}

\* C15: the DESCRIBE sent again after a challenge was answered 404 and
\* connect() returned describe_404, leaving the socket open
C15_Witness ==
    /\ result = ERR_DESCRIBE_404
    /\ Len(reqs) = 2
    /\ reqs[1].status = 401 /\ reqs[2].resent /\ reqs[2].status = 404
    /\ rtsp.sock = "open"
    /\ ~rtsp.connected

\* the requests that were answered by a 401 carrying a realm and a nonce
Challenges ==
    {i \in 1..Len(reqs) :
        reqs[i].status = 401 /\ reqs[i].realm # "" /\ reqs[i].nonce # ""}

\* C16: at most one request of a session is sent again because of a 401;
\* every request after the first 401 challenge carries the Authorization
\* built from the realm and nonce of that challenge; a 401 to a request
\* that carried an Authorization is not answered by another request, so
\* connect() sends at most four requests whatever the doorbell answers.
C16_SingleDigest ==
    /\ Cardinality({i \in 1..Len(reqs) : reqs[i].resent}) <= 1
    /\ \A i \in Challenges : \A j \in 1..Len(reqs) :
          (\A k \in Challenges : i <= k) /\ i < j
              => reqs[j].auth = <<reqs[i].realm, reqs[i].nonce>>
    /\ \A j \in 1..Len(reqs) :
          reqs[j].resent => j >= 2 /\ reqs[j - 1].auth = <<>>
                                   /\ reqs[j - 1].status = 401
    /\ Cardinality({i \in 1..Len(reqs) : reqs[i].method # "TEARDOWN"}) <= 4
    /\ Len(reqs) <= 5

\* C16: DESCRIBE was challenged and sent again, PLAY was answered by a
\* second challenge and not sent again, and the TEARDOWN of close() carried
\* the Authorization of the first challenge
C16_Witness ==
    /\ Len(reqs) = 5
    /\ reqs[1].status = 401 /\ reqs[1].nonce = "n1"
    /\ reqs[2].resent
    /\ reqs[4].method = "PLAY" /\ reqs[4].status = 401 /\ reqs[4].nonce = "n2"
    /\ reqs[5].method = "TEARDOWN" /\ reqs[5].auth = <<"r1", "n1">>
    /\ result = ERR_PLAY

\* the session of c after a write on the backchannel failed: the object
\* has been written to and is no longer connected
Broken(c) ==
    /\ pc[c] = "recv"
    /\ backchannel # "None"
    /\ objs[backchannel].sends > 0
    /\ ~objs[backchannel].connected

\* C17: after a write that failed and set connected to false, the next
\* audio frame of the session goes through the reconnect path: it passes
\* the retry gate (not given up, no backoff running) and, no failure being
\* counted, is answered by backchannel_connecting and a new connect.
C17_Orig ==
    \A c \in Clients :
        Broken(c) => /\ ~_bc_gave_up
                     /\ ~(now < _bc_backoff_until)
                     /\ _bc_fail_count = 0

\* the connected backchannel was opened for c or has carried c's audio
Using(c) ==
    /\ Connected_bc
    /\ \/ backchannel = c
       \/ \E i \in 1..Len(objs[backchannel].wire) :
             objs[backchannel].wire[i].by = c

\* C18: whenever a session closes while the backchannel it was using is
\* connected, the session is torn down, its socket is closed and the
\* object is discarded before the handler ends.
C18_Orig ==
    [][\A c \in Clients :
          pc[c] # "closed" /\ pc'[c] = "closed" /\ Using(c)
              => /\ backchannel' = "None"
                 /\ objs'[backchannel].sock # "open"
                 /\ ~objs'[backchannel].connected]_vars

\* C19: the reset helper is entered only in the step in which a connect()
\* that failed with describe_404 brings fail_count from 2 to exactly 3,
\* never after a failure of another kind or at another count.
C19_ResetTrigger ==
    [][\A c \in Clients :
          pc'[c] = "rst_get" /\ pc[c] # "rst_get"
              => /\ pc[c] = "connect"
                 /\ err'[c] = ERR_DESCRIBE_404
                 /\ _bc_fail_count' = _BC_RESET_AT
                 /\ _bc_fail_count' = _bc_fail_count + 1]_vars

\* C19: the observed session is in the helper after three failures, the
\* third one a describe_404 that followed a failure of another kind
C19_Witness ==
    /\ Solo
    /\ pc[Obs] = "rst_get"
    /\ err[Obs] = ERR_DESCRIBE_404
    /\ _bc_fail_count = _BC_RESET_AT
    /\ attempts = 3
    /\ lead404 = -1

\* C20: while a session lasts, fail_count changes only by an increment of
\* exactly 1 made by a connect() that failed or by a reset to 0 made by a
\* connect() that succeeded.
C20_Orig ==
    [][pc[Obs] # "closed" /\ pc'[Obs] # "closed"
            /\ _bc_fail_count' # _bc_fail_count
          => /\ \E c \in Clients : InFlight(pc, c) /\ ~InFlight(pc', c)
             /\ \/ _bc_fail_count' = _bc_fail_count + 1
                \/ _bc_fail_count' = 0]_vars

\* the retry state _reset_bc_state leaves
FreshRetry(fc, until, attempted, gave_up) ==
    fc = 0 /\ until = 0 /\ ~attempted /\ ~gave_up

\* C21: every session starts with fail_count = 0, backoff_until = 0,
\* reset_attempted and gave_up false, whatever happened before, so that
\* its first audio frame, finding no connected backchannel, is answered by
\* backchannel_connecting and a connect attempt.
C21_Orig ==
    [][/\ pc[Obs] = "closed" /\ pc'[Obs] = "recv"
            => FreshRetry(_bc_fail_count', _bc_backoff_until',
                          _bc_reset_attempted', _bc_gave_up')
       /\ rec.fresh /\ ~rec'.fresh /\ rec'.input.by = Obs /\ ~Connected_bc
            => pc'[Obs] = "st_connecting"]_vars

\* a frame has just been received from c
Received(c) == rec'.input.by = c

\* C22: a binary frame whose format byte is neither 0x01 nor 0x03 is dropped
\* and the session goes on: no connect attempt, no status message, no RTP
\* packet, and the DSP state, the retry state and every backchannel's
\* sequence number and timestamp are as they were.
C22_UnknownDropped ==
    [][\A c \in Clients :
          Received(c) /\ rec'.input.frame.tag \notin {1, 3}
              => /\ pc[c] = "recv"
                 /\ UNCHANGED <<dsp, retry, heap, sess, locals>>
                 /\ UNCHANGED <<attempts, statusLog, stream, nchunks>>]_vars

\* an unknown frame has arrived when an audio frame would have started a connect
C22_Witness ==
    /\ rec.input.by = Obs /\ rec.input.frame.tag = 2
    /\ ~Connected_bc /\ ~_bc_gave_up /\ now >= _bc_backoff_until
    /\ attempts > 0


\* the last packet on the wire of an object
LastPacket(o) == o.wire[Len(o.wire)]

\* the step wrote one packet on the connected backchannel, carrying alaw
WroteOne(alaw) ==
    LET o == objs[backchannel]
        o2 == objs'[backchannel]
    IN  /\ backchannel' = backchannel
        /\ o2.sends = o.sends + 1
        /\ o2.wire # o.wire /\ o2.wire # <<>>
        /\ LastPacket(o2).payload = alaw

\* the step tried one write on the connected backchannel and the socket
\* refused it
WriteRefused ==
    /\ backchannel' = backchannel
    /\ objs'[backchannel].wire = objs[backchannel].wire
    /\ ~objs'[backchannel].connected

\* C23: a frame tagged 0x03 that arrives while the backchannel is connected
\* makes the server write exactly one RTP packet whose payload is the
\* frame's payload, byte for byte (unless the socket refuses the write), and
\* leaves agc_gain, gate_hold and the diagnostic counter as they were.
C23_Orig ==
    [][\A c \in Clients :
          Received(c) /\ rec'.input.frame.tag = 3 /\ Connected_bc
              => /\ UNCHANGED <<_agc_gain, _gate_hold, _diag_counter>>
                 /\ WroteOne(rec'.input.frame.alaw) \/ WriteRefused]_vars


\* the A-law payload the handler has for the frame just received
Relayed == IF rec'.input.frame.tag = 1 THEN cond'.out ELSE rec'.input.frame.alaw

\* p is the interleaved frame send_audio_sync owes for payload alaw on o
Framed(p, o, alaw) ==
    /\ p.magic = 36 /\ p.chan = o.chan
    /\ p.length = 12 + PayLen(alaw) /\ p.length <= 65535
    /\ p.vpxcc = 128 /\ p.pt = 8
    /\ p.seq = Mask16(o.rtp_seq) /\ p.ts = Mask32(o.rtp_ts)
    /\ p.ssrc = o.rtp_ssrc
    /\ p.payload = alaw

\* C24: for every A-law payload the server relays, of any length an accepted
\* frame can carry, the bytes written are 0x24, the channel id, the 16-bit
\* length 12 + payload length, the RTP header (0x80, 0x08, sequence,
\* timestamp, SSRC) and the payload, and the send fails for no reason but a
\* socket error: the session that sent the frame keeps running.
C24_Orig ==
    [][\A c \in Clients :
          /\ Received(c) /\ rec'.input.frame.tag \in {1, 3} /\ Connected_bc
          /\ rec'.input.frame.tag = 1 => ~cond'.raised
          => /\ pc'[c] = "recv"
             /\ \/ WriteRefused
                \/ /\ WroteOne(Relayed)
                   /\ Framed(LastPacket(objs'[backchannel]),
                             objs[backchannel], Relayed)]_vars


\* the number of the frame the step wrote for the observed session
WrittenId ==
    LET k == CHOOSE k \in WrittenFor(Obs) : TRUE
    IN  LastPacket(objs'[k]).payload[1].b

\* C25: within one session the payloads written to the doorbell socket are
\* a subsequence of the audio frames received, in the order received: each
\* write carries the frame received last, which is later than every frame
\* written before it, so no frame is written twice or after a later one.
C25_InOrder ==
    [][WrittenFor(Obs) # {}
          => /\ Cardinality(WrittenFor(Obs)) = 1
             /\ WrittenId = rec'.count
             /\ WrittenId > rec.sent]_vars

\* two frames of the session were written and a later one has been received
C25_Witness == rec.sent >= 2 /\ rec.count > rec.sent


\* the helper run for c has just returned failure: its caller goes on at
\* lines 524-532, and no connect was started
HelperFailed(c) ==
    /\ pc'[c] \in {"st_failed", "st_unavailable"}
    /\ UNCHANGED <<heap, attempts, _bc_fail_count>>

\* C26: when GET /api/streams fails, the configured stream is absent or no
\* producer url starts with rtsp://, the helper issues neither DELETE nor
\* PUT, returns failure, and no connect follows the reset; when DELETE
\* fails, no PUT is issued and failure is returned.  (DELETE is issued from
\* "rst_delete" only, PUT from "rst_put" only, the connect from "rst_sleep".)
C26_HelperAbort ==
    [][\A c \in Clients :
          /\ /\ rec'.http.by = c /\ rec'.http.method = "GET"
             /\ rec'.http.reply \in {GET_FAILED, STREAM_ABSENT, NO_RTSP_PRODUCER}
             => HelperFailed(c) /\ UNCHANGED stream
          /\ /\ rec'.http.by = c /\ rec'.http.method = "DELETE"
             /\ rec'.http.reply = "failed"
             => HelperFailed(c) /\ UNCHANGED stream]_vars

\* the helper has just given up on a stream without rtsp:// producer
C26_Witness ==
    /\ rec.http.method = "GET" /\ rec.http.reply = NO_RTSP_PRODUCER
    /\ rec.http.by = Obs /\ pc[Obs] = "st_failed"
    /\ _bc_fail_count = _BC_RESET_AT /\ _bc_reset_attempted


\* C27: for every signed 16-bit sample s the table entry at index s (s +
\* 65536 when s is negative) is what the per-sample encoder gives for s,
\* it is a byte, and under the XOR with 0x55 its top bit is set exactly
\* for the negative samples.
C27_TableIsEncoder ==
    enc.called =>
        /\ enc.entry = enc.code
        /\ enc.entry \in 0..255
        /\ (BitXor(enc.entry, 85, 8) >= 128) <=> (sample < 0)

\* the entry of the last index of the table, that of sample -1
C27_Witness == enc.called /\ sample = -1 /\ enc.entry = 213


\* a connect() started for c returns success in this step
ConnectSucceeds(c) ==
    InFlight(pc, c) /\ pc'[c] \in {"st_ready", "recv", "closed"}

\* C28: every successful connect of a session, the direct attempt or the
\* one made after the reset helper, leaves fail_count = 0, backoff_until = 0
\* and reset_attempted false, and backchannel_ready is sent before the first
\* RTP packet of the new backchannel is written: the handler is on its way
\* to send it and has written nothing yet.
C28_Orig ==
    [][\A c \in Clients :
          ConnectSucceeds(c)
              => /\ _bc_fail_count' = 0
                 /\ _bc_backoff_until' = 0
                 /\ ~_bc_reset_attempted'
                 /\ pc'[c] = "st_ready"
                 /\ objs'[c].wire = <<>>]_vars


\* the reset helper run for c returns failure in this step: a call of the
\* go2rtc API failed, or the connect after the reset did
ResetFails(c) ==
    /\ pc[c] \in {"rst_get", "rst_delete", "rst_put", "rst_connect"}
    /\ pc'[c] \in {"st_failed", "st_unavailable", "closed"}

\* C29: when the reset helper aborts or the connect after it fails, the
\* third failure ends as if no reset had been tried: fail_count is 3,
\* backoff_until is still what the third failure set (at most 8 s ahead),
\* gave_up is false and the client is about to get backchannel_failed with
\* retry_in = 8.
C29_Orig ==
    [][\A c \in Clients :
          ResetFails(c)
              => /\ _bc_fail_count' = _BC_RESET_AT
                 /\ _bc_backoff_until' = _bc_backoff_until
                 /\ _bc_backoff_until' <= Backoff(_BC_RESET_AT)
                 /\ ~_bc_gave_up'
                 /\ pc'[c] = "st_failed"
                 /\ backoff'[c] = Backoff(_BC_RESET_AT)]_vars


\* an audio frame arrives from c while the backchannel is not connected and
\* the backoff is running, and nothing but the record of it changes
GateDrops(c) ==
    /\ Received(c) /\ rec'.input.frame.tag \in {1, 3}
    /\ ~Connected_bc /\ now < _bc_backoff_until
    => /\ UNCHANGED <<retry, heap, sess, locals>>
       /\ UNCHANGED <<attempts, statusLog>>

\* a frame of c passes the gate only at or after backoff_until
GatePasses(c) ==
    Received(c) /\ pc'[c] \in {"st_connecting", "connect"}
        => ~(now < _bc_backoff_until) /\ ~_bc_gave_up

\* C30 as claimed: during the backoff every audio frame is dropped with no
\* connect attempt, no status message, no RTP packet and the four retry
\* fields unchanged, and a connect attempt is made only in handling a frame
\* that arrived at or after backoff_until.
C30_Orig ==
    [][\A c \in Clients :
          /\ GateDrops(c)
          /\ GatePasses(c)
          /\ Connects(c) => pc[c] \in {"recv", "st_connecting"}]_vars

\* C30, amended: during the backoff every audio frame is dropped as
\* claimed, and a frame starts a connect attempt only if it arrived at or
\* after backoff_until; the one connect attempt that no such frame starts is
\* the reset helper's, made when its last sleep is over.
C30_Amended ==
    [][\A c \in Clients :
          /\ GateDrops(c)
          /\ GatePasses(c)
          /\ Connects(c) => \/ pc[c] \in {"recv", "st_connecting"}
                            \/ pc[c] = "rst_sleep" /\ now >= wake[c]]_vars

\* an audio frame of the observed session has just been dropped by the gate
C30_Witness ==
    /\ rec.input.by = Obs /\ rec.input.frame.tag = 3
    /\ ~Connected_bc /\ now < _bc_backoff_until /\ ~_bc_gave_up
    /\ pc[Obs] = "recv" /\ _bc_fail_count > 0


\* C31: every accepted WebSocket starts with fresh conditioner state:
\* gate_hold = 0, agc_gain at its initial value and the diagnostic counter
\* at 0, whatever audio earlier or concurrent sessions have sent.
C31_Orig ==
    [][\A c \in Clients :
          pc[c] = "closed" /\ pc'[c] = "recv"
              => /\ _gate_hold' = 0
                 /\ _agc_gain' = AGC_MAX_GAIN * GainScale
                 /\ _diag_counter' = 0]_vars


\* C32: every smoothed sample is its kernel-weighted sum divided by the
\* kernel weight (7, 9 or 10) with the quotient truncated toward zero, for
\* negative sums as for positive ones (a sum of -4 over 7 gives 0).
C32_Orig ==
    fir.called =>
        \A i \in 1..fir.n :
            /\ fir.sums[i].weight \in {7, 9, 10}
            /\ fir.smoothed[i]
                  = Quotient_Truncated(fir.sums[i].sum, fir.sums[i].weight)

\* C33: smoothing the reversed chunk gives the reverse of the smoothed
\* chunk, for every chunk of 3 samples or more.
C33_Orig == fir.called /\ fir.n >= 3 => fir.mirrored = Reverse(fir.smoothed)


\* C34: with v = s * g for a smoothed sample s and an integer gain g in
\* 1..30, the limited value is v when |v| <= 12000 and otherwise has the
\* sign of v and a magnitude in [12000, 28000) that does not decrease as |v|
\* grows; so the hard clip to -32768..32767 never changes a sample.
C34_SoftLimiterRange ==
    lim.called =>
        LET v == pair.s * pair.g
        IN  /\ Abs(v) <= SOFT_LIMIT => lim.soft = v
            /\ Abs(v) > SOFT_LIMIT
                  => /\ (lim.soft > 0) <=> (v > 0)
                     /\ Abs(lim.soft) >= SOFT_LIMIT
                     /\ Abs(lim.soft) < SOFT_CEILING
            /\ Abs(lim.soft) <= Abs(lim.further)
            /\ lim.out = lim.soft

\* the lowest sample at the highest gain has been limited
C34_Witness ==
    /\ lim.called /\ pair.s = -32768 /\ pair.g = AGC_MAX_GAIN
    /\ lim.out = -27740


\* close() has been called on the object and has not returned
Closing == rpos \in {"teardown", "teardown_again", "hung"}

\* C35: close() always completes, whatever the doorbell does with the
\* TEARDOWN (answers it, answers with an error, resets the connection or
\* never answers), and leaves connected false, the socket closed and the
\* session token cleared.
C35_Orig ==
    [](Closing => <>(/\ rpos = "closed"
                     /\ ~rtsp.connected
                     /\ rtsp.sock # "open"
                     /\ ~rtsp.session))



\* a call of connect() or close() on the object has not returned
CallInProgress == OnWorker(rpos) \/ OnLoop(rpos)

\* the event loop can run a handler, which passes its frame to the object
LoopRuns == ENABLED (\E io_ok \in BOOLEAN : RtspSend(io_ok) \/ RtspSendIdle(io_ok))

\* C36: no blocking I/O runs on the event loop: while the RTSP handshake
\* or the TEARDOWN exchange is in progress (each is executed on a worker),
\* the event loop can still receive and process frames.
C36_Orig == CallInProgress => LoopRuns



\* the step makes the call of the go2rtc API with this method for the
\* handler of the observed session
Issues(method) == rec'.http.by = Obs /\ rec'.http.method = method

\* the step is the connect attempt that follows the reset, in the handler
\* of the observed session
Reconnects == pc[Obs] = "rst_sleep" /\ pc'[Obs] = "rst_connect"

\* the last call of the run the observed handler is in, if it succeeded
\* at least d seconds ago
After(method, reply, d) ==
    /\ rec.run.method = method
    /\ rec.run.reply = reply
    /\ rec.run.slept >= d

C38_Orig ==
    /\ 0 <= _bc_fail_count
    /\ _bc_fail_count <= _BC_MAX_RETRIES
    /\ (_bc_fail_count >= _BC_MAX_RETRIES => _bc_gave_up)



\* the step is the return of _go2rtc_reset_sync to the handler of c
HelperReturns(c) ==
    /\ pc[c] \in {"rst_get", "rst_delete", "rst_put"}
    /\ pc'[c] \notin {"rst_get", "rst_delete", "rst_put"}

\* C39: whenever the reset helper has issued DELETE for the stream's rtsp
\* producer, the producer is attached again by the time the helper
\* returns, whether it returns success or failure.
C39_Orig ==
    [][\A c \in Clients :
          HelperReturns(c) /\ pc[c] = "rst_put" => stream' = "attached"]_vars



\* the step is a call of check_rate_limit(ip)
Checks(ip) == ret'.ip = ip /\ ret'.out # "none"

\* the failed attempts of ip recorded within the last 900 seconds
RecordedRecently(ip) ==
    IF ip \in DOMAIN _login_attempts
    THEN Cardinality({ i \in 1..Len(_login_attempts[ip]) :
                         clock - _login_attempts[ip][i] < RATE_LIMIT_WINDOW })
    ELSE 0

\* C40: for any sequence of check_rate_limit and record_failed_attempt
\* calls over any number of IPs (more than 100 tracked included, when the
\* stale-IP sweep runs), check_rate_limit(ip) returns a boolean: False
\* exactly when ip has at least 5 failed attempts recorded within the last
\* 900 seconds, True otherwise.
C40_Orig ==
    [][\A ip \in Users :
          Checks(ip) =>
             ret'.out = IF RecordedRecently(ip) >= RATE_LIMIT_ATTEMPTS
                        THEN "False" ELSE "True"]_vars

=============================================================================
